---------------------------- MODULE Spec2Model ----------------------------
(***************************************************************************)
(* State-machine model of the location-driven survival overlay (App.js,    *)
(* the variant with the position filter).                                  *)
(*                                                                         *)
(* Units.  JavaScript numbers are modelled in fixed point:                 *)
(*   - hp and applied damage: hundredths of a point (toFixed(2));          *)
(*   - raw and mitigated damage: 1/10000 of a point;                       *)
(*   - time: milliseconds (Date.now(), position.timestamp);                *)
(*   - distances given to the damage model: millimetres;                   *)
(*   - planar offsets (moving hazard, filter): centimetres;                *)
(*   - unit vectors: components scaled by DirScale;                        *)
(*   - coordinates: 1e-7 degree, relative to (37.56 N, 140.98 E).          *)
(* Integers of the model checker are 32-bit; the units are chosen so that  *)
(* no intermediate product overflows.                                      *)
(***************************************************************************)
EXTENDS Integers, Sequences, FiniteSets, TLC

(***************************************************************************)
(* Program constants                                                       *)
(***************************************************************************)
MAX_HP == 100
HEALING_ZONE_REGEN_PER_SECOND == 3
PASSIVE_REGEN_PER_SECOND == 1
HEALING_ZONE_ZERO_HP_DELAY_SECONDS == 60

\* Fixed-point scales.
HpScale == 100
DmgScale == 10000
DirScale == 10000

\* null / undefined of an optional value, and an optional value that is present.
None == << >>
Some(x) == << x >>
IsNone(o) == o = << >>
Val(o) == o[1]

\* A non-finite number (NaN, Infinity): every sum, product and quotient of the
\* program that has one as an operand is non-finite again.
NonFinite == -2000000000

(***************************************************************************)
(* Arithmetic helpers                                                      *)
(***************************************************************************)
Max(a, b) == IF a >= b THEN a ELSE b
Min(a, b) == IF a <= b THEN a ELSE b
Abs(a) == IF a >= 0 THEN a ELSE -a

\* a / b rounded to the nearest integer (b > 0), the fixed-point image of a
\* floating-point division.
RDiv(a, b) == (a + b \div 2) \div b

\* The largest r in [lo, hi] with r * r <= n, by bisection.
RECURSIVE SqrtBetween(_, _, _)
SqrtBetween(n, lo, hi) ==
    IF lo >= hi THEN lo
    ELSE LET mid == (lo + hi + 1) \div 2
         IN  IF mid * mid <= n THEN SqrtBetween(n, mid, hi)
                               ELSE SqrtBetween(n, lo, mid - 1)

\* Math.sqrt of a non-negative integer, rounded to the nearest integer.
ISqrt(n) ==
    LET r == SqrtBetween(n, 0, 46340)
    IN  IF n - r * r > r THEN r + 1 ELSE r

\* Math.hypot(x, y), for |x|, |y| <= 32767.
Hypot(x, y) == ISqrt(x * x + y * y)

\* Number(v.toFixed(2)) of a value given in thousandths: hundredths, half up.
ToFixed2FromMilli(v) == (v + 5) \div 10

\* Number(v.toFixed(2)) of a value given in 1/10000: hundredths, half up.
ToFixed2FromDmg(v) == (v + 50) \div 100

(***************************************************************************)
(* Geo-math utilities                                                      *)
(***************************************************************************)
\* offsetsToCoords: deltaLat = offsetY / 111320 degrees, that is
\* offsetY[cm] * 2500 / 2783 units of 1e-7 degree; deltaLon = offsetX /
\* (cos(lat) * 111320), with cos(37.5639 deg) * 111320 = 88240 m per degree, that
\* is offsetX[cm] * 1250 / 1103 units.
\* A non-finite operand (the centre's latitude is one of the longitude's, through
\* the cosine) gives a non-finite result.
offsetsToCoords(center, offsetX, offsetY) ==
    [latitude  |-> IF NonFinite \in {center.latitude, offsetY} THEN NonFinite
                   ELSE center.latitude + RDiv(offsetY * 2500, 2783),
     longitude |-> IF NonFinite \in {center.longitude, center.latitude, offsetX}
                   THEN NonFinite
                   ELSE center.longitude + RDiv(offsetX * 1250, 1103)]

\* coordsToOffsets: the inverse scaling, from coordinates to centimetres.
coordsToOffsets(center, coords) ==
    [x |-> IF NonFinite \in {coords.longitude, center.longitude, center.latitude}
           THEN NonFinite
           ELSE RDiv((coords.longitude - center.longitude) * 1103, 1250),
     y |-> IF NonFinite \in {coords.latitude, center.latitude} THEN NonFinite
           ELSE RDiv((coords.latitude - center.latitude) * 2783, 2500)]

\* calculateDistanceMeters: the haversine distance with Earth radius 6371000 m
\* (111195 m per degree of latitude, 88141 m per degree of longitude at this
\* latitude), which over the few hundred metres of the play field is the planar
\* distance.  Result in millimetres; centimetre resolution up to 300 m per axis,
\* decimetre resolution beyond; NaN (NonFinite) when a coordinate is not finite.
calculateDistanceMeters(origin, target) ==
    IF NonFinite \in {origin.latitude, origin.longitude, target.latitude, target.longitude}
    THEN NonFinite
    ELSE
    LET dy == RDiv((target.latitude - origin.latitude) * 139, 125)
        dx == RDiv((target.longitude - origin.longitude) * 4407, 5000)
    IN  IF Abs(dx) <= 30000 /\ Abs(dy) <= 30000
        THEN 10 * Hypot(dx, dy)
        ELSE 100 * Hypot(RDiv(dx, 10), RDiv(dy, 10))

(***************************************************************************)
(* Damage model                                                            *)
(***************************************************************************)
\* C10 mutant: evaluateZoneDamage with the safe boundary inside the range.
evaluateZoneDamageInclusive(distanceMeters, zone) ==
    IF distanceMeters = NonFinite THEN 0
    ELSE
    LET sourceRadius == IF IsNone(zone.sourceRadius) THEN 0 ELSE Val(zone.sourceRadius)
        effectiveDistance == Max(0, distanceMeters - sourceRadius * 1000)
    IN  IF effectiveDistance > zone.safeRadius * 1000 THEN 0
        ELSE
        LET denominator == effectiveDistance + zone.offset
            effectiveDenominator == IF denominator > 0 THEN denominator ELSE 100
            uncappedDamage == zone.baseDamage * DmgScale
                              + RDiv(zone.scale * DmgScale * 1000, effectiveDenominator)
        IN  IF IsNone(zone.maxDamage) THEN uncappedDamage
            ELSE Min(Val(zone.maxDamage) * DmgScale, uncappedDamage)

\* C11 mutant: evaluateZoneDamage with Math.max for Math.min at the cap.
evaluateZoneDamageMaxCap(distanceMeters, zone) ==
    IF distanceMeters = NonFinite THEN 0
    ELSE
    LET sourceRadius == IF IsNone(zone.sourceRadius) THEN 0 ELSE Val(zone.sourceRadius)
        effectiveDistance == Max(0, distanceMeters - sourceRadius * 1000)
    IN  IF effectiveDistance >= zone.safeRadius * 1000 THEN 0
        ELSE
        LET denominator == effectiveDistance + zone.offset
            effectiveDenominator == IF denominator > 0 THEN denominator ELSE 100
            uncappedDamage == zone.baseDamage * DmgScale
                              + RDiv(zone.scale * DmgScale * 1000, effectiveDenominator)
        IN  IF IsNone(zone.maxDamage) THEN uncappedDamage
            ELSE Max(Val(zone.maxDamage) * DmgScale, uncappedDamage)

\* C12 mutant: evaluateZoneDamage falling back to the denominator 0.01.
evaluateZoneDamageSmallFallback(distanceMeters, zone) ==
    IF distanceMeters = NonFinite THEN 0
    ELSE
    LET sourceRadius == IF IsNone(zone.sourceRadius) THEN 0 ELSE Val(zone.sourceRadius)
        effectiveDistance == Max(0, distanceMeters - sourceRadius * 1000)
    IN  IF effectiveDistance >= zone.safeRadius * 1000 THEN 0
        ELSE
        LET denominator == effectiveDistance + zone.offset
            effectiveDenominator == IF denominator > 0 THEN denominator ELSE 10
            uncappedDamage == zone.baseDamage * DmgScale
                              + RDiv(zone.scale * DmgScale * 1000, effectiveDenominator)
        IN  IF IsNone(zone.maxDamage) THEN uncappedDamage
            ELSE Min(Val(zone.maxDamage) * DmgScale, uncappedDamage)

\* A zone's shape parameters: sourceRadius, safeRadius, baseDamage, scale in
\* their own units (metres, points), offset in millimetres; sourceRadius and
\* maxDamage are optional.
evaluateZoneDamage(distanceMeters, zone) ==
    IF distanceMeters = NonFinite THEN 0
    ELSE
    LET sourceRadius == IF IsNone(zone.sourceRadius) THEN 0 ELSE Val(zone.sourceRadius)
        effectiveDistance == Max(0, distanceMeters - sourceRadius * 1000)
    IN  IF effectiveDistance >= zone.safeRadius * 1000 THEN 0
        ELSE
        LET denominator == effectiveDistance + zone.offset
            effectiveDenominator == IF denominator > 0 THEN denominator ELSE 100
            uncappedDamage == zone.baseDamage * DmgScale
                              + RDiv(zone.scale * DmgScale * 1000, effectiveDenominator)
        IN  IF IsNone(zone.maxDamage) THEN uncappedDamage
            ELSE Min(Val(zone.maxDamage) * DmgScale, uncappedDamage)

(***************************************************************************)
(* Haptic cadence                                                          *)
(***************************************************************************)
\* C6 mutant: the thresholds of getHapticsConfig taken as exclusive.
getHapticsConfigExclusive(damage) ==
    IF damage = NonFinite \/ damage <= 1 * DmgScale
    THEN [stage |-> 0, intervalMs |-> 0, style |-> "Light"]
    ELSE IF damage > 6 * DmgScale
    THEN [stage |-> 3, intervalMs |-> 1000, style |-> "Heavy"]
    ELSE IF damage > 3 * DmgScale
    THEN [stage |-> 2, intervalMs |-> 2000, style |-> "Medium"]
    ELSE [stage |-> 1, intervalMs |-> 3000, style |-> "Light"]

\* getHapticsConfig of a damage given in 1/10000 of a point.
getHapticsConfig(damage) ==
    IF damage = NonFinite \/ damage < 1 * DmgScale
    THEN [stage |-> 0, intervalMs |-> 0, style |-> "Light"]
    ELSE IF damage >= 6 * DmgScale
    THEN [stage |-> 3, intervalMs |-> 1000, style |-> "Heavy"]
    ELSE IF damage >= 3 * DmgScale
    THEN [stage |-> 2, intervalMs |-> 2000, style |-> "Medium"]
    ELSE [stage |-> 1, intervalMs |-> 3000, style |-> "Light"]

(***************************************************************************)
(* Moving-hazard kinematics                                                *)
(***************************************************************************)
\* normalizeVector of a vector whose components are scaled by DirScale.
normalizeVector(vector) ==
    LET h == Hypot(vector.x, vector.y)
        length == IF h = 0 THEN DirScale ELSE h
    IN  [x |-> RDiv(vector.x * DirScale, length),
         y |-> RDiv(vector.y * DirScale, length)]

\* clampOffsetToRadius (centimetres).
clampOffsetToRadius(offset, radius) ==
    LET length == Hypot(offset.x, offset.y)
    IN  IF length = 0 THEN [x |-> 0, y |-> 0]
        ELSE IF offset.x * offset.x + offset.y * offset.y <= radius * radius
        THEN [x |-> offset.x, y |-> offset.y]
        ELSE [x |-> RDiv(offset.x * RDiv(radius * 98, 100), length),
              y |-> RDiv(offset.y * RDiv(radius * 98, 100), length)]

\* C13 mutant: the loop of advanceWithinCircle stopping without the clamp when
\* the discriminant is negative.
RECURSIVE AdvanceLoopNoClamp(_, _, _, _, _)
AdvanceLoopNoClamp(position, currentDirection, remaining, radius, guard) ==
    IF ~(remaining > 0 /\ guard < 4)
    THEN [position |-> position, direction |-> currentDirection, guard |-> guard]
    ELSE
    LET targetX == position.x + RDiv(currentDirection.x * remaining, DirScale)
        targetY == position.y + RDiv(currentDirection.y * remaining, DirScale)
    IN  IF targetX * targetX + targetY * targetY <= radius * radius
        THEN [position |-> [x |-> targetX, y |-> targetY],
              direction |-> currentDirection, guard |-> guard]
        ELSE
        LET pd == RDiv(position.x * currentDirection.x
                       + position.y * currentDirection.y, DirScale)
            pp == position.x * position.x + position.y * position.y
            radiusSquared == radius * radius
            discriminant == pd * pd - (pp - radiusSquared)
        IN  IF discriminant < 0
            THEN [position |-> position, direction |-> currentDirection, guard |-> guard]
            ELSE
            LET travelToBoundary == ISqrt(discriminant) - pd
                boundary == [x |-> position.x
                                   + RDiv(currentDirection.x * travelToBoundary, DirScale),
                             y |-> position.y
                                   + RDiv(currentDirection.y * travelToBoundary, DirScale)]
                dot == RDiv(currentDirection.x * boundary.x
                            + currentDirection.y * boundary.y, radius)
                reflected == normalizeVector(
                    [x |-> currentDirection.x - RDiv(2 * dot * boundary.x, radius),
                     y |-> currentDirection.y - RDiv(2 * dot * boundary.y, radius)])
            IN  AdvanceLoopNoClamp(boundary, reflected,
                            Max(remaining - travelToBoundary, 0), radius, guard + 1)

\* C14 mutant: the loop of advanceWithinCircle with room for a fifth reflection.
RECURSIVE AdvanceLoopFiveReflections(_, _, _, _, _)
AdvanceLoopFiveReflections(position, currentDirection, remaining, radius, guard) ==
    IF ~(remaining > 0 /\ guard < 5)
    THEN [position |-> position, direction |-> currentDirection, guard |-> guard]
    ELSE
    LET targetX == position.x + RDiv(currentDirection.x * remaining, DirScale)
        targetY == position.y + RDiv(currentDirection.y * remaining, DirScale)
    IN  IF targetX * targetX + targetY * targetY <= radius * radius
        THEN [position |-> [x |-> targetX, y |-> targetY],
              direction |-> currentDirection, guard |-> guard]
        ELSE
        LET pd == RDiv(position.x * currentDirection.x
                       + position.y * currentDirection.y, DirScale)
            pp == position.x * position.x + position.y * position.y
            radiusSquared == radius * radius
            discriminant == pd * pd - (pp - radiusSquared)
        IN  IF discriminant < 0
            THEN LET len == Max(Hypot(position.x, position.y), 100)
                 IN  [position |-> [x |-> RDiv(position.x * radius, len),
                                    y |-> RDiv(position.y * radius, len)],
                      direction |-> currentDirection, guard |-> guard]
            ELSE
            LET travelToBoundary == ISqrt(discriminant) - pd
                boundary == [x |-> position.x
                                   + RDiv(currentDirection.x * travelToBoundary, DirScale),
                             y |-> position.y
                                   + RDiv(currentDirection.y * travelToBoundary, DirScale)]
                dot == RDiv(currentDirection.x * boundary.x
                            + currentDirection.y * boundary.y, radius)
                reflected == normalizeVector(
                    [x |-> currentDirection.x - RDiv(2 * dot * boundary.x, radius),
                     y |-> currentDirection.y - RDiv(2 * dot * boundary.y, radius)])
            IN  AdvanceLoopFiveReflections(boundary, reflected,
                            Max(remaining - travelToBoundary, 0), radius, guard + 1)

\* One pass of the while loop of advanceWithinCircle and the passes after it:
\* remaining and radius in centimetres, guard the number of reflections so far.
RECURSIVE AdvanceLoop(_, _, _, _, _)
AdvanceLoop(position, currentDirection, remaining, radius, guard) ==
    IF ~(remaining > 0 /\ guard < 4)
    THEN [position |-> position, direction |-> currentDirection, guard |-> guard]
    ELSE
    LET targetX == position.x + RDiv(currentDirection.x * remaining, DirScale)
        targetY == position.y + RDiv(currentDirection.y * remaining, DirScale)
    IN  IF targetX * targetX + targetY * targetY <= radius * radius
        THEN [position |-> [x |-> targetX, y |-> targetY],
              direction |-> currentDirection, guard |-> guard]
        ELSE
        LET pd == RDiv(position.x * currentDirection.x
                       + position.y * currentDirection.y, DirScale)
            pp == position.x * position.x + position.y * position.y
            radiusSquared == radius * radius
            discriminant == pd * pd - (pp - radiusSquared)
        IN  IF discriminant < 0
            THEN LET len == Max(Hypot(position.x, position.y), 100)
                 IN  [position |-> [x |-> RDiv(position.x * radius, len),
                                    y |-> RDiv(position.y * radius, len)],
                      direction |-> currentDirection, guard |-> guard]
            ELSE
            LET travelToBoundary == ISqrt(discriminant) - pd
                boundary == [x |-> position.x
                                   + RDiv(currentDirection.x * travelToBoundary, DirScale),
                             y |-> position.y
                                   + RDiv(currentDirection.y * travelToBoundary, DirScale)]
                dot == RDiv(currentDirection.x * boundary.x
                            + currentDirection.y * boundary.y, radius)
                reflected == normalizeVector(
                    [x |-> currentDirection.x - RDiv(2 * dot * boundary.x, radius),
                     y |-> currentDirection.y - RDiv(2 * dot * boundary.y, radius)])
            IN  AdvanceLoop(boundary, reflected,
                            Max(remaining - travelToBoundary, 0), radius, guard + 1)

\* C30 mutant: advanceWithinCircle moving to the straight-line target wherever
\* it lies.
advanceWithinCircleStraight(offset, direction, distance, radius) ==
    [position |-> [x |-> offset.x + RDiv(direction.x * Max(distance, 0), DirScale),
                   y |-> offset.y + RDiv(direction.y * Max(distance, 0), DirScale)],
     direction |-> direction]

advanceWithinCircle(offset, direction, distance, radius) ==
    LET r == AdvanceLoop(offset, direction, distance, radius, 0)
    IN  [position |-> r.position, direction |-> r.direction]

(***************************************************************************)
(* Position filter                                                         *)
(***************************************************************************)
\* POSITION_FILTER_CONFIG: alpha, beta and emaAlpha in hundredths, the
\* movement threshold in millimetres, the speed limit in millimetres per
\* second, the delta bounds in milliseconds.
FilterAlpha == 40
FilterBeta == 8
FilterEmaAlpha == 35
MinMovementMm == 750
MaxReasonableSpeedMmps == 5500
MinDeltaMs == 50
MaxDeltaMs == 3000

\* clampDeltaSeconds, in milliseconds.
clampDeltaSeconds(deltaMs) ==
    IF deltaMs = NonFinite \/ deltaMs <= 0 THEN 1000
    ELSE Min(Max(deltaMs, MinDeltaMs), MaxDeltaMs)

\* createAlphaBetaAxis: the state after construction and after reset().
AxisInit == [initialized |-> FALSE, position |-> 0, velocity |-> 0]

\* An axis that stays where it is on a missing measurement.
AxisStepHold(axis, deltaMs, measurement) ==
    LET dt == clampDeltaSeconds(deltaMs)
    IN  IF ~axis.initialized
        THEN IF IsNone(measurement)
             THEN [axis |-> axis, ok |-> FALSE]
             ELSE [axis |-> [initialized |-> TRUE, position |-> Val(measurement),
                             velocity |-> 0],
                   ok |-> TRUE]
        ELSE
        LET predictedPosition == axis.position + RDiv(axis.velocity * dt, 10000)
        IN  IF IsNone(measurement)
            THEN [axis |-> axis, ok |-> TRUE]
            ELSE
            LET residual == Val(measurement) - predictedPosition
            IN  [axis |-> [initialized |-> TRUE,
                           position |-> predictedPosition
                                        + RDiv(FilterAlpha * residual, 100),
                           velocity |-> axis.velocity
                                        + RDiv(FilterBeta * 100 * residual, dt)],
                 ok |-> TRUE]

\* step(deltaSeconds, measurement) of one axis: the new axis state, and whether
\* it returned a state (ok) or null.  position in centimetres, velocity in
\* millimetres per second; measurement is None for a missing measurement.
AxisStep(axis, deltaMs, measurement) ==
    LET dt == clampDeltaSeconds(deltaMs)
    IN  IF ~axis.initialized
        THEN IF IsNone(measurement)
             THEN [axis |-> axis, ok |-> FALSE]
             ELSE [axis |-> [initialized |-> TRUE, position |-> Val(measurement),
                             velocity |-> 0],
                   ok |-> TRUE]
        ELSE
        LET predictedPosition ==
                IF NonFinite \in {axis.position, axis.velocity} THEN NonFinite
                ELSE axis.position + RDiv(axis.velocity * dt, 10000)
        IN  IF IsNone(measurement)
            THEN [axis |-> [axis EXCEPT !.position = predictedPosition], ok |-> TRUE]
            ELSE IF NonFinite \in {Val(measurement), predictedPosition}
            THEN [axis |-> [initialized |-> TRUE, position |-> NonFinite,
                            velocity |-> NonFinite],
                  ok |-> TRUE]
            ELSE
            LET residual == Val(measurement) - predictedPosition
            IN  [axis |-> [initialized |-> TRUE,
                           position |-> predictedPosition
                                        + RDiv(FilterAlpha * residual, 100),
                           velocity |-> axis.velocity
                                        + RDiv(FilterBeta * 100 * residual, dt)],
                 ok |-> TRUE]

\* createPositionFilter: the state after construction and after reset().
\* lastAcceptedCoords is an observation the code does not keep: the coordinate
\* the filter returned for the last measurement its gate accepted.
FilterInit ==
    [axisX |-> AxisInit, axisY |-> AxisInit, referenceCoords |-> None,
     emaPosition |-> None, lastTimestamp |-> None, lastStableCoords |-> None,
     lastAcceptedCoords |-> None]

\* The gate with the two rejections at the thresholds themselves.
AcceptMeasurementStrict(f, coords, deltaMs) ==
    IF IsNone(f.lastStableCoords) THEN TRUE
    ELSE LET movement == calculateDistanceMeters(Val(f.lastStableCoords), coords)
             dt == Max(deltaMs, MinDeltaMs)
         IN  IF movement * 1000 >= MaxReasonableSpeedMmps * dt THEN FALSE
             ELSE IF movement <= MinMovementMm THEN FALSE
             ELSE TRUE

\* The measurement-acceptance gate of applyMeasurement.  Both comparisons are
\* false of a NaN movement, which leaves the final branch: accepted.
AcceptMeasurement(f, coords, deltaMs) ==
    IF IsNone(f.lastStableCoords) THEN TRUE
    ELSE LET movement == calculateDistanceMeters(Val(f.lastStableCoords), coords)
             dt == Max(deltaMs, MinDeltaMs)
         IN  IF movement = NonFinite THEN TRUE
             ELSE IF movement * 1000 > MaxReasonableSpeedMmps * dt THEN FALSE
             ELSE IF movement < MinMovementMm THEN FALSE
             ELSE TRUE

\* applyMeasurement(position) at time `at` (Date.now(), used when the fix has
\* no numeric timestamp): the new filter state, the coordinates returned
\* (None for null) and whether the gate accepted the measurement.
applyMeasurement(f, position, at) ==
    IF IsNone(position.coords)
    THEN [filter |-> f, coords |-> f.lastStableCoords, accepted |-> FALSE]
    ELSE
    LET coords == Val(position.coords)
        timestampMs == IF IsNone(position.timestamp) THEN at ELSE Val(position.timestamp)
        deltaSeconds == clampDeltaSeconds(
                            IF IsNone(f.lastTimestamp) THEN 1000
                            ELSE timestampMs - Val(f.lastTimestamp))
        referenceCoords == IF IsNone(f.referenceCoords) THEN coords
                           ELSE Val(f.referenceCoords)
        offsets == coordsToOffsets(referenceCoords, coords)
        acceptMeasurement == AcceptMeasurement(f, coords, deltaSeconds)
        stateX == AxisStep(f.axisX, deltaSeconds,
                           IF acceptMeasurement THEN Some(offsets.x) ELSE None)
        stateY == AxisStep(f.axisY, deltaSeconds,
                           IF acceptMeasurement THEN Some(offsets.y) ELSE None)
        f1 == [f EXCEPT !.referenceCoords = Some(referenceCoords),
                        !.axisX = stateX.axis, !.axisY = stateY.axis,
                        !.lastTimestamp = Some(timestampMs)]
    IN  IF ~stateX.ok \/ ~stateY.ok
        THEN [filter |-> f1, coords |-> f.lastStableCoords, accepted |-> acceptMeasurement]
        ELSE
        LET filteredOffsets == [x |-> stateX.axis.position, y |-> stateY.axis.position]
            emaPosition ==
                IF IsNone(f.emaPosition) THEN filteredOffsets
                ELSE LET e == Val(f.emaPosition)
                     IN  [x |-> IF NonFinite \in {e.x, filteredOffsets.x} THEN NonFinite
                                ELSE e.x + RDiv(FilterEmaAlpha * (filteredOffsets.x - e.x), 100),
                          y |-> IF NonFinite \in {e.y, filteredOffsets.y} THEN NonFinite
                                ELSE e.y + RDiv(FilterEmaAlpha * (filteredOffsets.y - e.y), 100)]
            stabilizedCoords == offsetsToCoords(referenceCoords, emaPosition.x, emaPosition.y)
        IN  [filter |-> [f1 EXCEPT !.emaPosition = Some(emaPosition),
                                   !.lastStableCoords = Some(stabilizedCoords),
                                   !.lastAcceptedCoords =
                                       IF acceptMeasurement THEN Some(stabilizedCoords)
                                       ELSE @],
             coords |-> Some(stabilizedCoords),
             accepted |-> acceptMeasurement]

(***************************************************************************)
(* Zone configuration                                                      *)
(***************************************************************************)
Coords(lat, lon) == [latitude |-> lat, longitude |-> lon]

StaticZone(lat, lon) ==
    [coords |-> Coords(lat, lon), sourceRadius |-> None, safeRadius |-> 60,
     baseDamage |-> 6, scale |-> 30, offset |-> 100, maxDamage |-> Some(18)]

DANGER_ZONES ==
    << StaticZone(37209, 132192),   \* garakuta
       StaticZone(38581, 115281),   \* station-rift
       StaticZone(43433, 123743),   \* area-center
       StaticZone(33455, 91391),    \* puku
       StaticZone(14869, 114438) >> \* haccoba

\* MOVING_HAZARD: radiusMeters and initialOffsetMeters in centimetres, the speed
\* in centimetres per second, the initial heading (45 degrees) as the vector
\* (cos 45, sin 45) scaled by DirScale.
MOVING_HAZARD ==
    [center |-> Coords(38860, 116980), radiusMeters |-> 30000,
     sourceRadius |-> Some(5), safeRadius |-> 60, baseDamage |-> 6, scale |-> 135,
     offset |-> 100, maxDamage |-> None, speedMetersPerSecond |-> 400,
     initialHeading |-> [x |-> 7071, y |-> 7071],
     initialOffsetMeters |-> [x |-> 12000, y |-> -6000]]

\* HEALING_ZONE: radiusMeters in millimetres.
HEALING_ZONE == [center |-> Coords(85090, 102780), radiusMeters |-> 58000]

INITIAL_STATS == [hp |-> MAX_HP * HpScale, guard |-> 5, resonance |-> 5]

createInitialMovingHazardState(config) ==
    LET offset == clampOffsetToRadius(config.initialOffsetMeters, config.radiusMeters)
    IN  [offset |-> offset, coords |-> offsetsToCoords(config.center, offset.x, offset.y)]

\* The zone object applyProximityEffects builds for the moving hazard: the
\* hazard's current coordinates with the configured safeRadius, baseDamage, scale,
\* offset and maxDamage; no sourceRadius is copied.
DynamicZone(dynamicState) ==
    [coords |-> dynamicState.coords, sourceRadius |-> None,
     safeRadius |-> MOVING_HAZARD.safeRadius, baseDamage |-> MOVING_HAZARD.baseDamage,
     scale |-> MOVING_HAZARD.scale, offset |-> MOVING_HAZARD.offset,
     maxDamage |-> MOVING_HAZARD.maxDamage]

(***************************************************************************)
(* State                                                                   *)
(***************************************************************************)
VARIABLES
    \* React state of App
    permissionStatus, location, stabilizedCoords, errorMsg, stats, lastDamage,
    zoneSummaries, isInHealingZone, movingHazardState,
    \* refs of App
    watcherRef, positionFilterRef, movingHazardRef, movingDirectionRef,
    movementTimestampRef, locationRef, hpRef, isInHealingZoneRef,
    healingZoneTimerRef, hapticStageRef, hapticIntervalRef, hapticStyleRef,
    lastHapticTimeRef,
    \* React's update queue: whether updates made outside React's own event
    \* handlers are batched until the next render (a concurrent root) or rendered
    \* synchronously (a legacy root); the state updaters not run yet; whether a
    \* render is scheduled
    batched, pendingStats, pendingHazard, dirty,
    \* environment: Date.now(), the requestPermissions invocations in flight, the
    \* location subscriptions not removed, the setInterval timer, the component
    \* being mounted, the numbers of fixes delivered and of ticks so far
    now, requests, subscriptions, intervalActive, mounted, fixCount, tickCount,
    \* observation of the last handler: the haptic pulses it fired, the steps it
    \* took in order, the state updaters that ran, the handler and its inputs;
    \* and the last call of a pure function on its own
    pulses, trace, applied, event, call

vars ==
    << permissionStatus, location, stabilizedCoords, errorMsg, stats, lastDamage,
       zoneSummaries, isInHealingZone, movingHazardState,
       watcherRef, positionFilterRef, movingHazardRef, movingDirectionRef,
       movementTimestampRef, locationRef, hpRef, isInHealingZoneRef,
       healingZoneTimerRef, hapticStageRef, hapticIntervalRef, hapticStyleRef,
       lastHapticTimeRef, batched, pendingStats, pendingHazard, dirty,
       now, requests, subscriptions, intervalActive, mounted, fixCount, tickCount,
       pulses, trace, applied, event, call >>

\* The whole state as one record, for the handlers, which are written as
\* functions from state to state.
World ==
    [permissionStatus |-> permissionStatus, location |-> location,
     stabilizedCoords |-> stabilizedCoords, errorMsg |-> errorMsg, stats |-> stats,
     lastDamage |-> lastDamage, zoneSummaries |-> zoneSummaries,
     isInHealingZone |-> isInHealingZone, movingHazardState |-> movingHazardState,
     watcherRef |-> watcherRef, positionFilterRef |-> positionFilterRef,
     movingHazardRef |-> movingHazardRef, movingDirectionRef |-> movingDirectionRef,
     movementTimestampRef |-> movementTimestampRef, locationRef |-> locationRef,
     hpRef |-> hpRef, isInHealingZoneRef |-> isInHealingZoneRef,
     healingZoneTimerRef |-> healingZoneTimerRef, hapticStageRef |-> hapticStageRef,
     hapticIntervalRef |-> hapticIntervalRef, hapticStyleRef |-> hapticStyleRef,
     lastHapticTimeRef |-> lastHapticTimeRef, batched |-> batched,
     pendingStats |-> pendingStats, pendingHazard |-> pendingHazard, dirty |-> dirty,
     now |-> now, requests |-> requests, subscriptions |-> subscriptions,
     intervalActive |-> intervalActive, mounted |-> mounted,
     fixCount |-> fixCount, tickCount |-> tickCount, pulses |-> pulses,
     trace |-> trace, applied |-> applied, event |-> event, call |-> call]

Assign(w) ==
    /\ permissionStatus' = w.permissionStatus
    /\ location' = w.location
    /\ stabilizedCoords' = w.stabilizedCoords
    /\ errorMsg' = w.errorMsg
    /\ stats' = w.stats
    /\ lastDamage' = w.lastDamage
    /\ zoneSummaries' = w.zoneSummaries
    /\ isInHealingZone' = w.isInHealingZone
    /\ movingHazardState' = w.movingHazardState
    /\ watcherRef' = w.watcherRef
    /\ positionFilterRef' = w.positionFilterRef
    /\ movingHazardRef' = w.movingHazardRef
    /\ movingDirectionRef' = w.movingDirectionRef
    /\ movementTimestampRef' = w.movementTimestampRef
    /\ locationRef' = w.locationRef
    /\ hpRef' = w.hpRef
    /\ isInHealingZoneRef' = w.isInHealingZoneRef
    /\ healingZoneTimerRef' = w.healingZoneTimerRef
    /\ hapticStageRef' = w.hapticStageRef
    /\ hapticIntervalRef' = w.hapticIntervalRef
    /\ hapticStyleRef' = w.hapticStyleRef
    /\ lastHapticTimeRef' = w.lastHapticTimeRef
    /\ batched' = w.batched
    /\ pendingStats' = w.pendingStats
    /\ pendingHazard' = w.pendingHazard
    /\ dirty' = w.dirty
    /\ now' = w.now
    /\ requests' = w.requests
    /\ subscriptions' = w.subscriptions
    /\ intervalActive' = w.intervalActive
    /\ mounted' = w.mounted
    /\ fixCount' = w.fixCount
    /\ tickCount' = w.tickCount
    /\ pulses' = w.pulses
    /\ trace' = w.trace
    /\ applied' = w.applied
    /\ event' = w.event
    /\ call' = w.call

\* What a handler that ran on a torn-down component leaves: React drops the
\* state updates of an unmounted component and renders nothing, so the state
\* and the queues stay as they are; what the handler did to the refs, to the
\* subscriptions and to the pending requests stays done.
Detached(w) ==
    [w EXCEPT !.permissionStatus = permissionStatus, !.location = location,
              !.stabilizedCoords = stabilizedCoords, !.errorMsg = errorMsg,
              !.stats = stats, !.lastDamage = lastDamage,
              !.zoneSummaries = zoneSummaries, !.isInHealingZone = isInHealingZone,
              !.movingHazardState = movingHazardState,
              !.pendingStats = pendingStats, !.pendingHazard = pendingHazard,
              !.dirty = FALSE]

\* The handler that ran on w ends: the next state is w, without the state
\* updates if the component was torn down before the handler ran.
Commit(w) == Assign(IF mounted THEN w ELSE Detached(w))

\* The state is w.
Holds(w) ==
    /\ permissionStatus = w.permissionStatus
    /\ location = w.location
    /\ stabilizedCoords = w.stabilizedCoords
    /\ errorMsg = w.errorMsg
    /\ stats = w.stats
    /\ lastDamage = w.lastDamage
    /\ zoneSummaries = w.zoneSummaries
    /\ isInHealingZone = w.isInHealingZone
    /\ movingHazardState = w.movingHazardState
    /\ watcherRef = w.watcherRef
    /\ positionFilterRef = w.positionFilterRef
    /\ movingHazardRef = w.movingHazardRef
    /\ movingDirectionRef = w.movingDirectionRef
    /\ movementTimestampRef = w.movementTimestampRef
    /\ locationRef = w.locationRef
    /\ hpRef = w.hpRef
    /\ isInHealingZoneRef = w.isInHealingZoneRef
    /\ healingZoneTimerRef = w.healingZoneTimerRef
    /\ hapticStageRef = w.hapticStageRef
    /\ hapticIntervalRef = w.hapticIntervalRef
    /\ hapticStyleRef = w.hapticStyleRef
    /\ lastHapticTimeRef = w.lastHapticTimeRef
    /\ batched = w.batched
    /\ pendingStats = w.pendingStats
    /\ pendingHazard = w.pendingHazard
    /\ dirty = w.dirty
    /\ now = w.now
    /\ requests = w.requests
    /\ subscriptions = w.subscriptions
    /\ intervalActive = w.intervalActive
    /\ mounted = w.mounted
    /\ fixCount = w.fixCount
    /\ tickCount = w.tickCount
    /\ pulses = w.pulses
    /\ trace = w.trace
    /\ applied = w.applied
    /\ event = w.event
    /\ call = w.call

\* The handler running on w takes the step `step` (on coords, if any).
Traced(w, step, coords) ==
    [w EXCEPT !.trace = Append(@, [step |-> step, coords |-> coords])]

(***************************************************************************)
(* React state updates                                                     *)
(***************************************************************************)
\* The updater functions given to setStats, run on the state w: kind "damage"
\* (applyProximityEffects, amount in hundredths), "passive" and "heal" (the
\* tick, amount the effective delta in milliseconds).
\* C1 mutant: the damage updater without the floor at 0.
DamageUpdaterNoFloor(w, damageApplied) ==
    LET nextHp == w.stats.hp - damageApplied
    IN  IF nextHp = w.stats.hp THEN w
        ELSE [w EXCEPT !.hpRef = nextHp, !.stats.hp = nextHp]

DamageUpdater(w, damageApplied) ==
    LET nextHp == Max(w.stats.hp - damageApplied, 0)
    IN  IF nextHp = w.stats.hp THEN w
        ELSE [w EXCEPT !.hpRef = nextHp, !.stats.hp = nextHp]

\* C9 mutant: the passive regen updater running also at hp 0.
PassiveRegenUpdaterFromZero(w, deltaMs) ==
    IF w.stats.hp >= MAX_HP * HpScale THEN w
    ELSE LET nextHp == Min(w.stats.hp * 10 + PASSIVE_REGEN_PER_SECOND * deltaMs,
                           MAX_HP * HpScale * 10)
             rounded == ToFixed2FromMilli(nextHp)
         IN  IF nextHp = w.stats.hp * 10 THEN w
             ELSE [w EXCEPT !.hpRef = rounded, !.stats.hp = rounded]

PassiveRegenUpdater(w, deltaMs) ==
    IF w.stats.hp <= 0 \/ w.stats.hp >= MAX_HP * HpScale THEN w
    ELSE LET nextHp == Min(w.stats.hp * 10 + PASSIVE_REGEN_PER_SECOND * deltaMs,
                           MAX_HP * HpScale * 10)
             rounded == ToFixed2FromMilli(nextHp)
         IN  IF nextHp = w.stats.hp * 10 THEN w
             ELSE [w EXCEPT !.hpRef = rounded, !.stats.hp = rounded]

\* C27 mutant: the healing regen updater leaving the dwell timer as it is.
HealingRegenUpdaterKeepTimer(w, deltaMs) ==
    LET currentHp == w.stats.hp
        readyForZeroHpRegen ==
            \/ currentHp > 0
            \/ /\ currentHp <= 0
               /\ w.healingZoneTimerRef >= HEALING_ZONE_ZERO_HP_DELAY_SECONDS * 1000
    IN  IF ~readyForZeroHpRegen \/ currentHp >= MAX_HP * HpScale THEN w
        ELSE LET nextHp == Min(currentHp * 10 + HEALING_ZONE_REGEN_PER_SECOND * deltaMs,
                               MAX_HP * HpScale * 10)
                 rounded == ToFixed2FromMilli(nextHp)
             IN  IF nextHp = currentHp * 10 THEN w
                 ELSE [w EXCEPT !.hpRef = rounded, !.stats.hp = rounded]

HealingRegenUpdater(w, deltaMs) ==
    LET currentHp == w.stats.hp
        readyForZeroHpRegen ==
            \/ currentHp > 0
            \/ /\ currentHp <= 0
               /\ w.healingZoneTimerRef >= HEALING_ZONE_ZERO_HP_DELAY_SECONDS * 1000
    IN  IF ~readyForZeroHpRegen \/ currentHp >= MAX_HP * HpScale THEN w
        ELSE LET nextHp == Min(currentHp * 10 + HEALING_ZONE_REGEN_PER_SECOND * deltaMs,
                               MAX_HP * HpScale * 10)
                 rounded == ToFixed2FromMilli(nextHp)
             IN  IF nextHp = currentHp * 10 THEN w
                 ELSE [w EXCEPT !.hpRef = rounded, !.stats.hp = rounded,
                                !.healingZoneTimerRef =
                                    IF rounded > 0 THEN 0 ELSE @]

\* The updater u has run on w and returned r.
Logged(w, u, r) ==
    [r EXCEPT !.applied = Append(@, [kind |-> u.kind, amount |-> u.amount,
                                     before |-> w.stats.hp, after |-> r.stats.hp,
                                     timer |-> w.healingZoneTimerRef])]

StatsUpdater(w, u) ==
    Logged(w, u,
           IF u.kind = "damage" THEN DamageUpdater(w, u.amount)
           ELSE IF u.kind = "passive" THEN PassiveRegenUpdater(w, u.amount)
           ELSE HealingRegenUpdater(w, u.amount))

\* The state the hazard updater returns for the position it has computed.
UpdatedHazard(position) ==
    [offset |-> position,
     coords |-> offsetsToCoords(MOVING_HAZARD.center, position.x, position.y)]

\* The hazard updater once advanceWithinCircle has returned r.
StoreHazardMove(w, r) ==
    [w EXCEPT !.movingDirectionRef = r.direction,
              !.movingHazardRef = UpdatedHazard(r.position),
              !.movingHazardState = UpdatedHazard(r.position)]

\* The updater given to setMovingHazardState by the tick.
MovingHazardUpdater(w, deltaMs) ==
    StoreHazardMove(
        w,
        advanceWithinCircle(w.movingHazardState.offset, w.movingDirectionRef,
                            RDiv(MOVING_HAZARD.speedMetersPerSecond * deltaMs, 1000),
                            MOVING_HAZARD.radiusMeters))

\* setStats(updater): on a legacy root the update is rendered at once, so the
\* updater runs now; on a concurrent root it is queued for the next render (every
\* handler has scheduled an update before it calls setStats, so React never runs
\* it eagerly).
setStats(w, u) ==
    IF w.batched
    THEN [Traced(w, u.kind, None) EXCEPT !.pendingStats = Append(@, u), !.dirty = TRUE]
    ELSE StatsUpdater(Traced(w, u.kind, None), u)

\* setMovingHazardState(updater): as setStats, but it is the first update of the
\* tick, so on a concurrent root with no update pending React may run the
\* updater eagerly (eager).
setMovingHazardState(w, deltaMs, eager) ==
    IF ~w.batched THEN MovingHazardUpdater(Traced(w, "hazard", None), deltaMs)
    ELSE IF eager /\ ~w.dirty
    THEN [MovingHazardUpdater(Traced(w, "hazard", None), deltaMs) EXCEPT !.dirty = TRUE]
    ELSE [Traced(w, "hazard", None)
            EXCEPT !.pendingHazard = Append(@, deltaMs), !.dirty = TRUE]

\* A setState with a plain value: the value the next render shows.
Scheduled(w) == [w EXCEPT !.dirty = w.batched]

RECURSIVE RunStatsUpdaters(_, _)
RunStatsUpdaters(w, q) ==
    IF q = << >> THEN w ELSE RunStatsUpdaters(StatsUpdater(w, Head(q)), Tail(q))

RECURSIVE RunHazardUpdaters(_, _)
RunHazardUpdaters(w, q) ==
    IF q = << >> THEN w ELSE RunHazardUpdaters(MovingHazardUpdater(w, Head(q)), Tail(q))

\* The effects that follow a render: they copy stats.hp to hpRef and
\* movingHazardState to movingHazardRef.
SyncRefs(w) ==
    [w EXCEPT !.pendingStats = << >>, !.pendingHazard = << >>, !.dirty = FALSE,
              !.hpRef = w.stats.hp, !.movingHazardRef = w.movingHazardState]

\* A render of App on a concurrent root: the queued updaters run in order, then
\* the effects.
RenderApp(w) ==
    SyncRefs(RunHazardUpdaters(RunStatsUpdaters(w, w.pendingStats), w.pendingHazard))

(***************************************************************************)
(* Handlers                                                                *)
(***************************************************************************)
\* Haptics.impactAsync(style), fire-and-forget; src names the caller.
Impact(w, style, src) ==
    [Traced(w, src, None)
       EXCEPT !.pulses = Append(@, [src |-> src, style |-> style, at |-> w.now])]

\* C7 mutant: updateDamageHaptics pulsing also when the stage stays the same.
StoreHapticsSameStage(w, cfg) ==
    IF cfg.stage = 0
    THEN [w EXCEPT !.hapticStageRef = cfg.stage, !.hapticIntervalRef = cfg.intervalMs,
                   !.hapticStyleRef = cfg.style, !.lastHapticTimeRef = 0]
    ELSE IF w.hapticStageRef <= cfg.stage \/ w.lastHapticTimeRef = 0
    THEN [Impact(w, cfg.style, "evaluator")
            EXCEPT !.hapticStageRef = cfg.stage, !.hapticIntervalRef = cfg.intervalMs,
                   !.hapticStyleRef = cfg.style, !.lastHapticTimeRef = w.now]
    ELSE [w EXCEPT !.hapticStageRef = cfg.stage, !.hapticIntervalRef = cfg.intervalMs,
                   !.hapticStyleRef = cfg.style]

\* updateDamageHaptics once getHapticsConfig has returned cfg.
StoreHaptics(w, cfg) ==
    IF cfg.stage = 0
    THEN [w EXCEPT !.hapticStageRef = cfg.stage, !.hapticIntervalRef = cfg.intervalMs,
                   !.hapticStyleRef = cfg.style, !.lastHapticTimeRef = 0]
    ELSE IF w.hapticStageRef < cfg.stage \/ w.lastHapticTimeRef = 0
    THEN [Impact(w, cfg.style, "evaluator")
            EXCEPT !.hapticStageRef = cfg.stage, !.hapticIntervalRef = cfg.intervalMs,
                   !.hapticStyleRef = cfg.style, !.lastHapticTimeRef = w.now]
    ELSE [w EXCEPT !.hapticStageRef = cfg.stage, !.hapticIntervalRef = cfg.intervalMs,
                   !.hapticStyleRef = cfg.style]

\* updateDamageHaptics(damage), damage in hundredths.
updateDamageHaptics(w, damage) ==
    StoreHaptics(w, getHapticsConfig(damage * (DmgScale \div HpScale)))

\* C3 mutant: the summary entry without the healing zone's override.
ZoneSummaryNoHealing(coords, zone, insideHealingZone, guardValue, isDynamic) ==
    [distance |-> calculateDistanceMeters(coords, zone.coords),
     rawDamage |-> evaluateZoneDamage(calculateDistanceMeters(coords, zone.coords), zone),
     mitigatedDamage |->
         Max(evaluateZoneDamage(calculateDistanceMeters(coords, zone.coords), zone)
             - guardValue * DmgScale, 0),
     isDynamic |-> isDynamic]

\* One entry of the summaries of applyProximityEffects: raw and mitigated
\* damage in 1/10000, distance in millimetres.
ZoneSummary(coords, zone, insideHealingZone, guardValue, isDynamic) ==
    LET distance == calculateDistanceMeters(coords, zone.coords)
        rawDamage == IF insideHealingZone THEN 0 ELSE evaluateZoneDamage(distance, zone)
    IN  [distance |-> distance, rawDamage |-> rawDamage,
         mitigatedDamage |-> Max(rawDamage - guardValue * DmgScale, 0),
         isDynamic |-> isDynamic]

RECURSIVE SumMitigated(_)
SumMitigated(summaries) ==
    IF summaries = << >> THEN 0
    ELSE Head(summaries).mitigatedDamage + SumMitigated(Tail(summaries))

InsideHealingZone(coords) ==
    /\ calculateDistanceMeters(coords, HEALING_ZONE.center) # NonFinite
    /\ calculateDistanceMeters(coords, HEALING_ZONE.center) <= HEALING_ZONE.radiusMeters

\* The summaries applyProximityEffects computes for coords: the static zones in
\* order, then the moving hazard at the coordinates movingHazardRef holds.
Summaries(w, coords) ==
    LET insideHealingZone == InsideHealingZone(coords)
    IN  [i \in 1..Len(DANGER_ZONES) |->
            ZoneSummary(coords, DANGER_ZONES[i], insideHealingZone, w.stats.guard, FALSE)]
        \o << ZoneSummary(coords, DynamicZone(w.movingHazardRef), insideHealingZone,
                          w.stats.guard, TRUE) >>

\* applyProximityEffects from the haptics update on, damageApplied in hundredths.
ApplyDamage(w, damageApplied) ==
    IF damageApplied > 0
    THEN [setStats(updateDamageHaptics(w, damageApplied),
                   [kind |-> "damage", amount |-> damageApplied])
            EXCEPT !.lastDamage = damageApplied]
    ELSE [updateDamageHaptics(w, damageApplied) EXCEPT !.lastDamage = damageApplied]

\* C4 mutant: the guard taken once from the total, not from each zone.
StoreSummariesGuardOnTotal(w, insideHealingZone, summaries) ==
    ApplyDamage(
        Scheduled([w EXCEPT !.isInHealingZone = insideHealingZone,
                            !.isInHealingZoneRef = insideHealingZone,
                            !.healingZoneTimerRef = IF insideHealingZone THEN @ ELSE 0,
                            !.zoneSummaries = summaries]),
        ToFixed2FromDmg(Max(SumMitigated(summaries)
                            + Len(SelectSeq(summaries, LAMBDA e : e.mitigatedDamage > 0))
                              * w.stats.guard * DmgScale
                            - w.stats.guard * DmgScale, 0)))

\* applyProximityEffects once the summaries are computed.
StoreSummaries(w, insideHealingZone, summaries) ==
    ApplyDamage(
        Scheduled([w EXCEPT !.isInHealingZone = insideHealingZone,
                            !.isInHealingZoneRef = insideHealingZone,
                            !.healingZoneTimerRef = IF insideHealingZone THEN @ ELSE 0,
                            !.zoneSummaries = summaries]),
        ToFixed2FromDmg(SumMitigated(summaries)))

\* applyProximityEffects(coords); coords is None for null.
applyProximityEffects(w, coords) ==
    IF IsNone(coords)
    THEN Scheduled([Traced(w, "clear", None)
                      EXCEPT !.zoneSummaries = << >>, !.lastDamage = 0,
                             !.isInHealingZone = FALSE, !.isInHealingZoneRef = FALSE,
                             !.healingZoneTimerRef = 0])
    ELSE StoreSummaries(Traced(w, "evaluate", coords),
                        InsideHealingZone(Val(coords)), Summaries(w, Val(coords)))

\* handleLocationUpdate from the coordinates chosen for the effects on.
UseCoordsForEffects(w, position, coordsForEffects) ==
    IF IsNone(coordsForEffects) THEN w
    ELSE applyProximityEffects(
             [w EXCEPT !.locationRef =
                           Some([position EXCEPT !.coords = coordsForEffects]),
                       !.stabilizedCoords = coordsForEffects],
             coordsForEffects)

\* handleLocationUpdate once the filter has returned m; the gate's decision is
\* traced with the coordinates measured.
StoreMeasurement(w, position, m) ==
    UseCoordsForEffects(
        Scheduled([Traced(w, IF m.accepted THEN "accept" ELSE "reject", position.coords)
                     EXCEPT !.location = Some(position), !.positionFilterRef = m.filter]),
        position,
        IF IsNone(m.coords) THEN position.coords ELSE m.coords)

\* handleLocationUpdate(position); position is None for null.
handleLocationUpdate(w, position) ==
    IF IsNone(position)
    THEN applyProximityEffects(
             Scheduled([w EXCEPT !.location = None, !.positionFilterRef = FilterInit,
                                 !.locationRef = None, !.stabilizedCoords = None]),
             None)
    ELSE StoreMeasurement(w, Val(position),
                          applyMeasurement(w.positionFilterRef, Val(position), w.now))

\* C28 mutant: the effective delta without the cap at 2 seconds.
TickDeltaUncapped(elapsedMs) ==
    IF elapsedMs = NonFinite \/ elapsedMs <= 0 THEN 1000 ELSE elapsedMs

\* The effective delta of a tick, in milliseconds, from the wall-clock delta.
TickDelta(elapsedMs) ==
    LET deltaSeconds == IF elapsedMs = NonFinite \/ elapsedMs <= 0 THEN 1000
                        ELSE elapsedMs
    IN  Min(deltaSeconds, 2000)

\* C2 mutant: the dwell timer with Math.max for Math.min.
DwellTimerMax(w, deltaSeconds) ==
    IF deltaSeconds > 0
    THEN IF w.hpRef <= 0
         THEN Max(w.healingZoneTimerRef + deltaSeconds,
                  HEALING_ZONE_ZERO_HP_DELAY_SECONDS * 1000)
         ELSE 0
    ELSE w.healingZoneTimerRef

\* The dwell timer after the healing-zone step of a tick inside the zone.
DwellTimer(w, deltaSeconds) ==
    IF deltaSeconds > 0
    THEN IF w.hpRef <= 0
         THEN Min(w.healingZoneTimerRef + deltaSeconds,
                  HEALING_ZONE_ZERO_HP_DELAY_SECONDS * 1000)
         ELSE 0
    ELSE w.healingZoneTimerRef

\* The healing-zone step once the dwell timer is updated.
HealingRegenStep(w, deltaSeconds) ==
    IF (w.hpRef > 0 \/ w.healingZoneTimerRef >= HEALING_ZONE_ZERO_HP_DELAY_SECONDS * 1000)
       /\ deltaSeconds > 0
    THEN setStats(w, [kind |-> "heal", amount |-> deltaSeconds])
    ELSE w

\* The healing-zone step of the tick (dwell timer, then regen).
HealingZoneStep(w, deltaSeconds) ==
    IF w.isInHealingZoneRef
    THEN HealingRegenStep([w EXCEPT !.healingZoneTimerRef = DwellTimer(w, deltaSeconds)],
                          deltaSeconds)
    ELSE [w EXCEPT !.healingZoneTimerRef = 0]

\* The passive-regen step of the tick.
PassiveRegenStep(w, deltaSeconds) ==
    IF deltaSeconds > 0 /\ PASSIVE_REGEN_PER_SECOND * deltaSeconds > 0
    THEN setStats(w, [kind |-> "passive", amount |-> deltaSeconds])
    ELSE w

\* C8 mutant: the cadence step waiting for more than the interval.
HapticCadenceStepLate(w) ==
    IF w.hapticStageRef > 0 /\ w.hapticIntervalRef > 0
       /\ w.now - w.lastHapticTimeRef > w.hapticIntervalRef
    THEN [Impact(w, w.hapticStyleRef, "cadence") EXCEPT !.lastHapticTimeRef = w.now]
    ELSE w

\* The haptic-cadence step of the tick.
HapticCadenceStep(w) ==
    IF w.hapticStageRef > 0 /\ w.hapticIntervalRef > 0
       /\ w.now - w.lastHapticTimeRef >= w.hapticIntervalRef
    THEN [Impact(w, w.hapticStyleRef, "cadence") EXCEPT !.lastHapticTimeRef = w.now]
    ELSE w

\* C5 mutant: a tick that does not re-evaluate.
ReevaluateStepSkipped(w) == w

\* The proximity re-evaluation that ends the tick.
ReevaluateStep(w) ==
    IF IsNone(w.locationRef) THEN w
    ELSE IF IsNone(Val(w.locationRef).coords) THEN w
    ELSE applyProximityEffects(w, Val(w.locationRef).coords)

\* The steps of the setInterval callback after the effective delta is known, in
\* the order of the code.
TickSteps(w, deltaSeconds, eager) ==
    ReevaluateStep(
        HapticCadenceStep(
            HealingZoneStep(
                PassiveRegenStep(setMovingHazardState(w, deltaSeconds, eager),
                                 deltaSeconds),
                deltaSeconds)))

\* The setInterval callback, run at time w.now.
TickHandler(w, eager) ==
    TickSteps([w EXCEPT !.movementTimestampRef = w.now],
              TickDelta(w.now - w.movementTimestampRef), eager)

(***************************************************************************)
(* Bounds and inputs                                                       *)
(***************************************************************************)
\* Date.now() when the component mounts.
StartTime == 10000
\* The ticks run, the fixes delivered by a watcher, and the state updaters that
\* may wait for a render.
MaxTicks == 3
MaxFixes == 1
MaxPending == 1

\* The requestPermissions invocations the model tells apart.
RequestIds == {1, 2}

\* Places the first position may report: the place the moving hazard starts
\* from; points 25 m and 58 m behind it, which the hazard leaves; a point 20 m
\* beyond the centre of the static zone garakuta, which the hazard approaches;
\* the centre of the healing zone; and a place out of reach of every zone.
AtHazardStart == createInitialMovingHazardState(MOVING_HAZARD).coords
BehindHazard == Coords(31882, 128576)
FarBehindHazard == Coords(29786, 125931)
BeyondGarakuta == Coords(38905, 132929)
AtHealingCentre == HEALING_ZONE.center
FarAway == Coords(60000, 100000)

StartCoords ==
    {AtHazardStart, BehindHazard, FarBehindHazard, BeyondGarakuta, AtHealingCentre,
     FarAway}

\* The user's movement between two fixes, as a change of the reported
\* coordinates: 6 m to the north, 30 m to the east.
FixSteps == {Coords(540, 0), Coords(0, 3400)}

\* The coordinates of the fix that follows the reported position `last` (None
\* before the first fix) after the movement `step`.
NextFixCoords(last, step) ==
    LET from == IF IsNone(last) THEN FarAway
                ELSE IF IsNone(Val(last).coords) THEN FarAway
                ELSE Val(Val(last).coords)
    IN  Coords(from.latitude + step.latitude, from.longitude + step.longitude)

\* Milliseconds between one event and the tick or fix after it.
TickAdvances == {1000, 3000}
FixAdvances == {1000}

NoEvent == [op |-> "none", delta |-> 0, coords |-> None, id |-> 0]
NoCall == [op |-> "none", arg |-> << >>, result |-> << >>]

\* Calls of the pure functions on their own.  Damages given to
\* getHapticsConfig, in 1/10000: the stage thresholds 1, 3 and 6 and their
\* neighbours, 0.999, and values far from them.
HapticsInputs ==
    {NonFinite, -10000, 0, 9990, 9999, 10000, 10001, 20000, 29999, 30000, 30001,
     45000, 59999, 60000, 60001, 180000}

\* Distances given to evaluateZoneDamage, in millimetres: the boundaries 60 m and
\* 65 m and their neighbours, and distances inside and far outside.
DistanceInputs ==
    {NonFinite, 0, 100, 5000, 14900, 59999, 60000, 60001, 64999, 65000, 65001, 300000}
    \cup {20, 1950, 2000, 2050, 6950, 30000}

\* A zone with the damage parameters of the static zones but its own
\* sourceRadius, offset (millimetres) and maxDamage.
ShapedZone(sourceRadius, offset, maxDamage) ==
    [sourceRadius |-> sourceRadius, safeRadius |-> 60, baseDamage |-> 6, scale |-> 30,
     offset |-> offset, maxDamage |-> maxDamage]

\* Zones given to evaluateZoneDamage: zones with or without a sourceRadius of
\* 5 m, with the offsets 0.05, 0 and -2 and with no maxDamage or the maxDamage 18
\* or 400; a static zone (no sourceRadius, maxDamage
\* 18), the zone built for the moving hazard (no sourceRadius, no maxDamage)
\* and the moving hazard's configuration (sourceRadius 5).
ZoneInputs ==
    {DANGER_ZONES[1], DynamicZone(createInitialMovingHazardState(MOVING_HAZARD)),
     MOVING_HAZARD}
    \cup {ShapedZone(r, o, m) : r \in {None, Some(5)}, o \in {50, 0, -2000},
                                m \in {None, Some(18), Some(400)}}

\* Coordinates given to a zone summary: the centre of the healing zone, the
\* points 58.00 m and 58.01 m north of it.
OnHealingRim == Coords(HEALING_ZONE.center.latitude + 5216, HEALING_ZONE.center.longitude)
BeyondHealingRim == Coords(HEALING_ZONE.center.latitude + 5217, HEALING_ZONE.center.longitude)
SummaryCoords == {HEALING_ZONE.center, OnHealingRim, BeyondHealingRim}

\* Zones given to a zone summary: a static zone and a moving hazard that lie at
\* the centre of the healing zone.
SummaryZones ==
    {[zone |-> StaticZone(HEALING_ZONE.center.latitude, HEALING_ZONE.center.longitude),
      isDynamic |-> FALSE],
     [zone |-> DynamicZone([coords |-> HEALING_ZONE.center]), isDynamic |-> TRUE]}

\* Inputs given to advanceWithinCircle (centimetres; directions scaled by
\* DirScale).  Offsets: the centre, points inside, a point 100 m out and points
\* 120 m and 150 m out, which lie on or beyond the smaller circles.
AdvanceOffsets ==
    {[x |-> 0, y |-> 0], [x |-> 6000, y |-> 0], [x |-> 12000, y |-> -6000],
     [x |-> 10000, y |-> 0], [x |-> 12000, y |-> 0], [x |-> 0, y |-> -15000]}

\* Directions: unit vectors along the axes and across them, the zero vector
\* and a vector of length 0.5.
AdvanceDirections ==
    {[x |-> 10000, y |-> 0], [x |-> 0, y |-> 10000], [x |-> -10000, y |-> 0],
     [x |-> 6000, y |-> 8000], [x |-> 7071, y |-> 7071], [x |-> 0, y |-> 0],
     [x |-> 3000, y |-> 4000]}

\* A direction that is not a unit vector: length 1.2.
StretchedDirection == [x |-> 12000, y |-> 0]

\* Travel distances: a negative one, none, the 4 m and 8 m of a tick, 90 m and
\* 170 m.
AdvanceDistances == {-500, 0, 400, 800, 9000, 17000}

\* Radii: 0.5 m, 100 m and the 300 m of MOVING_HAZARD.
AdvanceRadii == {50, 10000, MOVING_HAZARD.radiusMeters}

CallInputs ==
    {[op |-> "advanceWithinCircle", arg |-> <<o, d, t, r>>, result |-> << >>] :
         o \in AdvanceOffsets, d \in AdvanceDirections, t \in AdvanceDistances,
         r \in AdvanceRadii}
    \cup {[op |-> "advanceWithinCircle", arg |-> <<o, StretchedDirection, t, r>>,
           result |-> << >>] :
              o \in {[x |-> 0, y |-> 0], [x |-> 6000, y |-> 0]}, t \in {400, 9000},
              r \in {10000, MOVING_HAZARD.radiusMeters}}
    \cup
    {[op |-> "getHapticsConfig", arg |-> <<d>>, result |-> << >>] : d \in HapticsInputs}
    \cup {[op |-> "evaluateZoneDamage", arg |-> <<d, z>>, result |-> << >>] :
              d \in DistanceInputs, z \in ZoneInputs}
    \cup {[op |-> "ZoneSummary", arg |-> <<c, z.zone, z.isDynamic>>, result |-> << >>] :
              c \in SummaryCoords, z \in SummaryZones}

\* What the call c returns; a zone summary is computed as applyProximityEffects
\* computes it, with the guard of INITIAL_STATS; advanceWithinCircle is given
\* with the number of reflections its loop made.
CallResult(c) ==
    IF c.op = "advanceWithinCircle"
    THEN AdvanceLoop(c.arg[1], c.arg[2], c.arg[3], c.arg[4], 0)
    ELSE IF c.op = "getHapticsConfig" THEN getHapticsConfig(c.arg[1])
    ELSE IF c.op = "evaluateZoneDamage" THEN evaluateZoneDamage(c.arg[1], c.arg[2])
    ELSE ZoneSummary(c.arg[1], c.arg[2], InsideHealingZone(c.arg[1]),
                     INITIAL_STATS.guard, c.arg[3])

(***************************************************************************)
(* Initial state: App has mounted, its effects have run                    *)
(***************************************************************************)
\* App after it has mounted on a root that batches updates (or not), its effects
\* run and requestPermissions waiting for the permission prompt.
MountedApp(isBatched) ==
    [permissionStatus |-> None, location |-> None, stabilizedCoords |-> None,
     errorMsg |-> None, stats |-> INITIAL_STATS, lastDamage |-> 0,
     zoneSummaries |-> << >>, isInHealingZone |-> FALSE,
     movingHazardState |-> createInitialMovingHazardState(MOVING_HAZARD),
     watcherRef |-> None, positionFilterRef |-> FilterInit,
     movingHazardRef |-> createInitialMovingHazardState(MOVING_HAZARD),
     movingDirectionRef |-> normalizeVector(MOVING_HAZARD.initialHeading),
     movementTimestampRef |-> StartTime, locationRef |-> None,
     hpRef |-> INITIAL_STATS.hp, isInHealingZoneRef |-> FALSE,
     healingZoneTimerRef |-> 0, hapticStageRef |-> 0, hapticIntervalRef |-> 0,
     hapticStyleRef |-> "Light", lastHapticTimeRef |-> 0, batched |-> isBatched,
     pendingStats |-> << >>, pendingHazard |-> << >>, dirty |-> FALSE,
     now |-> StartTime,
     requests |-> [i \in RequestIds |-> IF i = 1 THEN "permission" ELSE "idle"],
     subscriptions |-> {}, intervalActive |-> TRUE, mounted |-> TRUE,
     fixCount |-> 0, tickCount |-> 0, pulses |-> << >>, trace |-> << >>,
     applied |-> << >>, event |-> NoEvent, call |-> NoCall]

\* App has mounted; a call of a pure function may be about to be made.
Init ==
    \E isBatched \in BOOLEAN, c \in CallInputs \cup {NoCall} :
        Holds([MountedApp(isBatched) EXCEPT !.call = c])

(***************************************************************************)
(* Actions                                                                 *)
(***************************************************************************)
\* The state a handler starts from at time t.
Enter(t, ev) ==
    [World EXCEPT !.now = t, !.pulses = << >>, !.trace = << >>, !.applied = << >>,
                  !.event = ev, !.call = NoCall]

\* A handler may run before the render the previous ones scheduled only while
\* at most MaxPending updaters wait for that render.
QueueHasRoom == Len(pendingStats) + Len(pendingHazard) <= MaxPending

\* The 1-second timer fires, advance milliseconds by Date.now() after the last
\* event, having fired fewer than maxTicks times.
TickWithin(advance, maxTicks) ==
    /\ intervalActive
    /\ tickCount < maxTicks
    /\ QueueHasRoom
    /\ \E eager \in BOOLEAN :
         Commit(TickHandler(
             [Enter(now + advance,
                    [op |-> "tick",
                     delta |-> TickDelta(now + advance - movementTimestampRef),
                     coords |-> IF IsNone(locationRef) THEN None
                                ELSE Val(locationRef).coords,
                     id |-> 0])
                EXCEPT !.tickCount = @ + 1],
             eager))

Tick(advance) == TickWithin(advance, MaxTicks)

\* The watcher id delivers a fix, advance milliseconds after the last event and
\* stamped with the time of delivery, the user having moved by step, fewer than
\* maxFixes fixes having come from watchers.
FixWithin(id, step, advance, maxFixes) ==
    /\ id \in subscriptions
    /\ fixCount < maxFixes
    /\ QueueHasRoom
    /\ LET coords == NextFixCoords(location, step)
       IN  Commit(handleLocationUpdate(
               [Enter(now + advance,
                      [op |-> "fix", delta |-> 0, coords |-> Some(coords), id |-> id])
                  EXCEPT !.fixCount = @ + 1],
               Some([coords |-> Some(coords), timestamp |-> Some(now + advance)])))

Fix(id, step, advance) == FixWithin(id, step, advance, MaxFixes)

\* The watcher id delivers, advance milliseconds after the last event, a fix
\* that reports coords: None for a fix without coords.
FixAt(id, coords, advance, maxFixes) ==
    /\ id \in subscriptions
    /\ fixCount < maxFixes
    /\ QueueHasRoom
    /\ Commit(handleLocationUpdate(
           [Enter(now + advance,
                  [op |-> "fix", delta |-> 0, coords |-> coords, id |-> id])
              EXCEPT !.fixCount = @ + 1],
           Some([coords |-> coords, timestamp |-> Some(now + advance)])))

\* React renders App (concurrent root only: a legacy root renders inside the
\* handler).
Render ==
    /\ dirty
    /\ Commit(RenderApp(Enter(now, [NoEvent EXCEPT !.op = "render"])))

\* watcherRef.current?.remove()
RemoveWatcher(w) ==
    IF IsNone(w.watcherRef) THEN w
    ELSE [w EXCEPT !.subscriptions = @ \ {Val(w.watcherRef)}]

\* renderContent on the state w: the message shown (the error message, or the
\* view's own text) and whether the retry button is part of the view.
renderContent(w) ==
    IF w.errorMsg # None /\ w.errorMsg # Some("")
    THEN [view |-> "error", message |-> w.errorMsg, retry |-> FALSE]
    ELSE IF w.permissionStatus = None
    THEN [view |-> "checking", message |-> None, retry |-> FALSE]
    ELSE IF w.permissionStatus # Some("granted")
    THEN [view |-> "permission", message |-> None, retry |-> TRUE]
    ELSE IF w.location = None
    THEN [view |-> "locating", message |-> None, retry |-> FALSE]
    ELSE [view |-> "game", message |-> None, retry |-> FALSE]

\* The retry button, which renderContent shows while no error message is set and
\* the permission status is known and not granted: requestPermissions, up to its
\* first await.
RequestPermissions(id) ==
    /\ mounted
    /\ requests[id] = "idle"
    /\ errorMsg = None
    /\ permissionStatus \notin {None, Some("granted")}
    /\ Commit([Enter(now, [NoEvent EXCEPT !.op = "retry", !.id = id])
                 EXCEPT !.requests[id] = "permission"])

\* requestPermissions after a status that is not granted, up to its return.
PermissionRefused(w, id) ==
    [handleLocationUpdate([RemoveWatcher(w) EXCEPT !.watcherRef = None], None)
       EXCEPT !.errorMsg = Some("denied"), !.zoneSummaries = << >>, !.lastDamage = 0,
              !.requests[id] = "done"]

\* requestPermissions invoked again, as the retry button's onPress does, up to
\* its first await.  What renderContent requires to show the button is left to
\* RequestPermissions.
Retry(id) ==
    /\ mounted
    /\ requests[id] = "idle"
    /\ Commit([Enter(now, [NoEvent EXCEPT !.op = "retry", !.id = id])
                 EXCEPT !.requests[id] = "permission"])

\* A granted status that keeps the filter and the stored location.
PermissionGrantedKeepFilter(w, id) ==
    [w EXCEPT !.errorMsg = None, !.requests[id] = "position"]

\* requestPermissions after the status granted, up to its next await.
PermissionGranted(w, id) ==
    [w EXCEPT !.errorMsg = None, !.positionFilterRef = FilterInit,
              !.stabilizedCoords = None, !.locationRef = None,
              !.requests[id] = "position"]

\* requestForegroundPermissionsAsync resolves with status; requestPermissions
\* runs to its next await, or to its return when the status is not granted.
PermissionResult(id, status) ==
    /\ requests[id] = "permission"
    /\ IF status # "granted"
       THEN Commit(PermissionRefused(
                Scheduled([Enter(now, [NoEvent EXCEPT !.op = "permission", !.id = id])
                             EXCEPT !.permissionStatus = Some(status)]),
                id))
       ELSE Commit(PermissionGranted(
                Scheduled([Enter(now, [NoEvent EXCEPT !.op = "permission", !.id = id])
                             EXCEPT !.permissionStatus = Some(status)]),
                id))

\* getCurrentPositionAsync resolves with a position at coords; requestPermissions
\* handles it, removes the stored watcher and calls watchPositionAsync.
PositionResult(id, coords) ==
    /\ requests[id] = "position"
    /\ QueueHasRoom
    /\ Commit([RemoveWatcher(
                  handleLocationUpdate(
                      Enter(now, [op |-> "position", delta |-> 0,
                                  coords |-> Some(coords), id |-> id]),
                      Some([coords |-> Some(coords), timestamp |-> Some(now)])))
                 EXCEPT !.requests[id] = "watch"])

\* getCurrentPositionAsync or watchPositionAsync rejects: the catch block.
AcquisitionFailure(id) ==
    /\ requests[id] \in {"position", "watch"}
    /\ Commit(Scheduled([Enter(now, [NoEvent EXCEPT !.op = "failure", !.id = id])
                           EXCEPT !.errorMsg = Some("failed"),
                                  !.requests[id] = "done"]))

\* watchPositionAsync resolves: the subscription is active and is stored.
WatchResult(id) ==
    /\ requests[id] = "watch"
    /\ Commit([Enter(now, [NoEvent EXCEPT !.op = "watch", !.id = id])
                 EXCEPT !.subscriptions = @ \cup {id},
                        !.watcherRef = Some(id),
                        !.requests[id] = "done"])

\* The component is torn down: the cleanup of the mount effect removes the
\* watcher stored at that moment, the cleanup of the tick effect clears the
\* interval, and what waited for a render is dropped.
Unmount ==
    /\ mounted
    /\ Commit([RemoveWatcher(Enter(now, [NoEvent EXCEPT !.op = "unmount"]))
                 EXCEPT !.intervalActive = FALSE, !.mounted = FALSE, !.dirty = FALSE,
                        !.pendingStats = << >>, !.pendingHazard = << >>])

\* The pure function called returns.
Return ==
    /\ call.op # "none"
    /\ call.result = << >>
    /\ Commit([World EXCEPT !.call.result = << CallResult(call) >>])

Next ==
    \/ Return
    \/ \E a \in TickAdvances : Tick(a)
    \/ \E id \in RequestIds, c \in FixSteps, a \in FixAdvances : Fix(id, c, a)
    \/ Render
    \/ \E id \in RequestIds, st \in {"granted", "denied"} : PermissionResult(id, st)
    \/ \E id \in RequestIds, c \in StartCoords : PositionResult(id, c)
    \/ \E id \in RequestIds : AcquisitionFailure(id)
    \/ \E id \in RequestIds : WatchResult(id)

Spec == Init /\ [][Next]_vars

(***************************************************************************)
(* A timer that does not fire on the second                                *)
(***************************************************************************)
\* Milliseconds by Date.now() between one event and the tick after it, for a
\* timer that fires 4 ms late, or 3 ms after an event.
JitterAdvances == {3, 1004}

NextJitter ==
    \/ Return
    \/ \E a \in JitterAdvances : Tick(a)
    \/ \E id \in RequestIds, c \in FixSteps, a \in FixAdvances : Fix(id, c, a)
    \/ Render
    \/ \E id \in RequestIds, st \in {"granted", "denied"} : PermissionResult(id, st)
    \/ \E id \in RequestIds, c \in StartCoords : PositionResult(id, c)
    \/ \E id \in RequestIds : AcquisitionFailure(id)
    \/ \E id \in RequestIds : WatchResult(id)

SpecJitter == Init /\ [][NextJitter]_vars

(***************************************************************************)
(* Revival in the healing zone                                             *)
(***************************************************************************)
\* The ticks of a revival that the model follows one by one.
MaxReviveTicks == 5

\* The ticks, 2 seconds apart, that have passed since the player entered the
\* healing zone when the model takes over: none, or 56 seconds' worth.
DwellTicksBefore == {0, 28}

\* Milliseconds by Date.now() between two ticks of a revival: a timer that fires
\* late after one that fired later still, and the full 2 seconds the tick
\* counts at most, less a millisecond or not.
ReviveAdvances == {1, 1999, 2000}

\* A player who has lost all hp and whose tracking is on, as the fix at the
\* centre of the healing zone is handled.
EnteredHealingZone(isBatched) ==
    handleLocationUpdate(
        [MountedApp(isBatched)
           EXCEPT !.permissionStatus = Some("granted"), !.requests[1] = "done",
                  !.watcherRef = Some(1), !.subscriptions = {1},
                  !.stats.hp = 0, !.hpRef = 0],
        Some([coords |-> Some(AtHealingCentre), timestamp |-> Some(StartTime)]))

\* The state w after one more tick, 2 seconds later, and its render.
NextDwellTick(w) ==
    RenderApp(TickHandler([w EXCEPT !.now = @ + 2000, !.pulses = << >>,
                                    !.trace = << >>, !.applied = << >>],
                          FALSE))

\* The state w after `ticks` more ticks, 2 seconds apart and each rendered (the
\* test of tickCount has the tick computed before the next one starts).
RECURSIVE Dwelling(_, _)
Dwelling(w, ticks) ==
    IF ticks = 0 \/ w.tickCount < 0 THEN w
    ELSE Dwelling(NextDwellTick(w), ticks - 1)

InitRevive ==
    \E isBatched \in BOOLEAN, ticks \in DwellTicksBefore :
        Holds([Dwelling(EnteredHealingZone(isBatched), ticks)
                 EXCEPT !.pulses = << >>, !.trace = << >>, !.applied = << >>])

NextRevive ==
    \/ \E a \in ReviveAdvances : TickWithin(a, MaxReviveTicks)
    \/ Render

SpecRevive == InitRevive /\ [][NextRevive]_vars

(***************************************************************************)
(* Waiting at the edge of the healing zone                                 *)
(***************************************************************************)
MaxDwellTicks == 3
MaxDwellFixes == 1

\* A place 57.6 m north of the centre of the healing zone, inside it, and the
\* place 5 m further north, outside it.
NearHealingEdge == Coords(AtHealingCentre.latitude + 5180, AtHealingCentre.longitude)
BeyondHealingEdge == Coords(NearHealingEdge.latitude + 450, NearHealingEdge.longitude)

\* A player who has lost all hp and whose tracking is on, as the fix at
\* NearHealingEdge is handled.
EnteredAtEdge(isBatched) ==
    handleLocationUpdate(
        [MountedApp(isBatched)
           EXCEPT !.permissionStatus = Some("granted"), !.requests[1] = "done",
                  !.watcherRef = Some(1), !.subscriptions = {1},
                  !.stats.hp = 0, !.hpRef = 0],
        Some([coords |-> Some(NearHealingEdge), timestamp |-> Some(StartTime)]))

InitDwell ==
    \E isBatched \in BOOLEAN, ticks \in DwellTicksBefore :
        Holds([Dwelling(EnteredAtEdge(isBatched), ticks)
                 EXCEPT !.pulses = << >>, !.trace = << >>, !.applied = << >>])

\* The player waits, or steps out of the zone.
NextDwell ==
    \/ \E a \in ReviveAdvances : TickWithin(a, MaxDwellTicks)
    \/ \E c \in {NearHealingEdge, BeyondHealingEdge}, a \in FixAdvances :
          FixAt(1, Some(c), a, MaxDwellFixes)
    \/ Render

SpecDwell == InitDwell /\ [][NextDwell]_vars

(***************************************************************************)
(* A timer that stalls, and a clock that is set back                       *)
(***************************************************************************)
MaxStallTicks == 3

\* Milliseconds by Date.now() between one event and the tick after it: the
\* clock set back by half a second, the same millisecond, a tick half a second
\* late, and a timer that was stalled for a minute.
StallAdvances == {-500, 0, 1500, 60000}

\* The player waits in the healing zone while the timer fires irregularly.
NextStall ==
    \/ \E a \in StallAdvances : TickWithin(a, MaxStallTicks)
    \/ Render

SpecStall == InitDwell /\ [][NextStall]_vars

(***************************************************************************)
(* A walk seen through the position filter                                 *)
(***************************************************************************)
\* The fixes a watcher delivers during a walk.
MaxWalkFixes == 3

\* The user's movement between two fixes of the walk, as a change of the
\* reported coordinates: none; 0.73 m, 0.75 m, 5.50 m, 5.52 m and 20 m to the
\* north; 5 m to the south.
WalkSteps ==
    {Coords(0, 0), Coords(66, 0), Coords(67, 0), Coords(495, 0), Coords(496, 0),
     Coords(1800, 0), Coords(-450, 0)}

\* Milliseconds between one event of the walk and the fix after it.
WalkAdvances == {1000, 5000}

InitWalk == \E isBatched \in BOOLEAN : Holds(MountedApp(isBatched))

\* Tracking starts far from every zone, then the watcher reports the walk.
NextWalk ==
    \/ PermissionResult(1, "granted")
    \/ PositionResult(1, FarAway)
    \/ WatchResult(1)
    \/ \E c \in WalkSteps, a \in WalkAdvances : FixWithin(1, c, a, MaxWalkFixes)
    \/ Render

SpecWalk == InitWalk /\ [][NextWalk]_vars

(***************************************************************************)
(* The hazard on patrol                                                    *)
(***************************************************************************)
\* The ticks of a session long enough for the hazard to cross its circle
\* twice, and how many of them come on time.
MaxPatrolTicks == 100
MaxOnTimeTicks == 3

\* Milliseconds between one event and the tick after it: on time, and late by
\* 2 seconds.
PatrolAdvances == {1000, 3000}

\* The ticks so far that came on time (only ticks advance the clock here).
OnTimeTicks == (tickCount * 3000 - (now - StartTime)) \div 2000

\* The session before any position is known: the timer fires, mostly late, and
\* the hazard moves.
NextPatrol ==
    \/ \E a \in PatrolAdvances :
          /\ a = 1000 => OnTimeTicks < MaxOnTimeTicks
          /\ TickWithin(a, MaxPatrolTicks)
    \/ Render

SpecPatrol == InitWalk /\ [][NextPatrol]_vars

(***************************************************************************)
(* A provider that reports fixes without a usable measurement              *)
(***************************************************************************)
MaxGlitchFixes == 3

\* A coordinate whose latitude is NaN.
NoLatitude == Coords(NonFinite, FarAway.longitude)

\* What a fix may report: nothing, a NaN latitude, the place the session starts
\* at, and places 5.5 m and 20 m north of it.
GlitchFixes ==
    {None, Some(NoLatitude), Some(FarAway),
     Some(Coords(FarAway.latitude + 495, FarAway.longitude)),
     Some(Coords(FarAway.latitude + 1800, FarAway.longitude))}

NextGlitch ==
    \/ PermissionResult(1, "granted")
    \/ \E c \in {FarAway, NoLatitude} : PositionResult(1, c)
    \/ WatchResult(1)
    \/ \E c \in GlitchFixes, a \in FixAdvances : FixAt(1, c, a, MaxGlitchFixes)
    \/ Render

SpecGlitch == InitWalk /\ [][NextGlitch]_vars

(***************************************************************************)
(* A user who stands still after the first fixes were off                  *)
(***************************************************************************)
MaxSettleFixes == 5
MaxWanderFixes == 2

\* Where the user stands.
SettledAt == Coords(FarAway.latitude + 1800, FarAway.longitude)

\* What the provider reports before it settles: places 20 m, 3 m and 0.5 m
\* south of where the user stands, and the place itself.
WanderCoords ==
    {FarAway, Coords(SettledAt.latitude - 270, SettledAt.longitude),
     Coords(SettledAt.latitude - 45, SettledAt.longitude), SettledAt}

\* The rates a provider may report at, in milliseconds between fixes.
SteadyRates == {1000, 3000, 5000}

\* The rate of the stream once it has settled.
SteadyRateMs == 1000

\* The provider has settled: every fix from now on reports SettledAt.
StreamSettled == fixCount >= MaxWanderFixes

NextSettle ==
    \/ PermissionResult(1, "granted")
    \/ \E c \in WanderCoords : PositionResult(1, c)
    \/ WatchResult(1)
    \/ \E c \in WanderCoords, a \in SteadyRates :
          /\ ~StreamSettled
          /\ FixAt(1, Some(c), a, MaxSettleFixes)
    \/ /\ StreamSettled
       /\ FixAt(1, Some(SettledAt), SteadyRateMs, MaxSettleFixes)
    \/ Render

SpecSettle == InitWalk /\ [][NextSettle]_vars

(***************************************************************************)
(* A player who stays at the edge of a danger zone                         *)
(***************************************************************************)
MaxLingerTicks == 4
MaxLingerFixes == 2

\* 50 m south of the zone haccoba, more than 300 m from the hazard's centre.
SouthOfHaccoba == Coords(10372, 114438)

\* The time between two events here: ticks on time, early and late.
LingerAdvances == {500, 1000, 2000, 2500}

NextLinger ==
    \/ PermissionResult(1, "granted")
    \/ PositionResult(1, SouthOfHaccoba)
    \/ WatchResult(1)
    \/ \E a \in LingerAdvances : TickWithin(a, MaxLingerTicks)
    \/ \E a \in FixAdvances : FixAt(1, Some(SouthOfHaccoba), a, MaxLingerFixes)
    \/ Render

SpecLinger == InitWalk /\ [][NextLinger]_vars

(***************************************************************************)
(* Tracking interrupted and resumed                                        *)
(***************************************************************************)
\* The fixes of a session in which requestPermissions runs twice.
MaxRetryFixes == 2

\* Where a position is reported: in the healing zone or out of every zone.
RetryCoords == {AtHealingCentre, FarAway}

\* The location side of a session from the mount on, with a second invocation
\* of requestPermissions at any moment.
NextRetry ==
    \/ \E id \in RequestIds, c \in FixSteps, a \in FixAdvances :
          FixWithin(id, c, a, MaxRetryFixes)
    \/ Render
    \/ \E id \in RequestIds : Retry(id)
    \/ \E id \in RequestIds, st \in {"granted", "denied"} : PermissionResult(id, st)
    \/ \E id \in RequestIds, c \in RetryCoords \cup {BehindHazard} : PositionResult(id, c)
    \/ \E id \in RequestIds : WatchResult(id)

SpecRetry == InitWalk /\ [][NextRetry]_vars

(***************************************************************************)
(* The variant without the position filter (src/unnamed/part_000)          *)
(***************************************************************************)
\* INITIAL_STATS.hp and MAX_HP of the variant, in hundredths.  Its sessions here
\* stay out of reach of every danger zone, so hp keeps this value, at which the
\* regen updaters return the state they are given, as they do at MAX_HP.
MAX_HP_UNFILTERED == 1000 * HpScale

\* The ticks and the fixes of a session of the variant.
MaxUnfilteredTicks == 2
MaxUnfilteredFixes == 1

\* The variant after its mount effects have run.
MountedUnfiltered(isBatched) ==
    [MountedApp(isBatched) EXCEPT !.stats.hp = MAX_HP_UNFILTERED,
                                  !.hpRef = MAX_HP_UNFILTERED]

\* What the variant does with a position: setLocation, locationRef.current and
\* applyProximityEffects on the raw coordinates.
LocationUpdateUnfiltered(w, position) ==
    applyProximityEffects(
        Scheduled([w EXCEPT !.location = Some(position), !.locationRef = Some(position)]),
        position.coords)

\* requestPermissions of the variant after a status that is not granted, up to
\* its return: the watcher, the location, the summaries and the last damage are
\* cleared; isInHealingZoneRef and healingZoneTimerRef are not touched.
PermissionRefusedUnfiltered(w, id) ==
    [Scheduled([RemoveWatcher(w) EXCEPT !.watcherRef = None])
       EXCEPT !.location = None, !.locationRef = None, !.errorMsg = Some("denied"),
              !.zoneSummaries = << >>, !.lastDamage = 0, !.requests[id] = "done"]

\* requestPermissions of the variant after the status granted, up to its next
\* await.
PermissionGrantedUnfiltered(w, id) ==
    [w EXCEPT !.errorMsg = None, !.requests[id] = "position"]

PermissionResultUnfiltered(id, status) ==
    /\ requests[id] = "permission"
    /\ IF status # "granted"
       THEN Commit(PermissionRefusedUnfiltered(
                Scheduled([Enter(now, [NoEvent EXCEPT !.op = "permission", !.id = id])
                             EXCEPT !.permissionStatus = Some(status)]),
                id))
       ELSE Commit(PermissionGrantedUnfiltered(
                Scheduled([Enter(now, [NoEvent EXCEPT !.op = "permission", !.id = id])
                             EXCEPT !.permissionStatus = Some(status)]),
                id))

PositionResultUnfiltered(id, coords) ==
    /\ requests[id] = "position"
    /\ QueueHasRoom
    /\ Commit([RemoveWatcher(
                  LocationUpdateUnfiltered(
                      Enter(now, [op |-> "position", delta |-> 0,
                                  coords |-> Some(coords), id |-> id]),
                      [coords |-> Some(coords), timestamp |-> Some(now)]))
                 EXCEPT !.requests[id] = "watch"])

\* The watcher id of the variant delivers a fix.
FixUnfiltered(id, step, advance) ==
    /\ id \in subscriptions
    /\ fixCount < MaxUnfilteredFixes
    /\ QueueHasRoom
    /\ LET coords == NextFixCoords(location, step)
       IN  Commit(LocationUpdateUnfiltered(
               [Enter(now + advance,
                      [op |-> "fix", delta |-> 0, coords |-> Some(coords), id |-> id])
                  EXCEPT !.fixCount = @ + 1],
               [coords |-> Some(coords), timestamp |-> Some(now + advance)]))

InitUnfiltered == \E isBatched \in BOOLEAN : Holds(MountedUnfiltered(isBatched))

\* A session of the variant in or near the healing zone or far from every
\* zone, with a second invocation of requestPermissions at any moment.
NextUnfiltered ==
    \/ \E a \in TickAdvances : TickWithin(a, MaxUnfilteredTicks)
    \/ \E id \in RequestIds, c \in FixSteps, a \in FixAdvances : FixUnfiltered(id, c, a)
    \/ Render
    \/ \E id \in RequestIds : Retry(id)
    \/ \E id \in RequestIds, st \in {"granted", "denied"} :
          PermissionResultUnfiltered(id, st)
    \/ \E id \in RequestIds, c \in RetryCoords : PositionResultUnfiltered(id, c)
    \/ \E id \in RequestIds : WatchResult(id)

SpecUnfiltered == InitUnfiltered /\ [][NextUnfiltered]_vars

(***************************************************************************)
(* The variant while a player at hp 0 waits in the healing zone            *)
(***************************************************************************)
MaxLapseTicks == 3

\* A player of the variant who has lost all hp and whose tracking is on, as the
\* fix at the centre of the healing zone is handled.
EnteredUnfiltered(isBatched) ==
    LocationUpdateUnfiltered(
        [MountedApp(isBatched)
           EXCEPT !.permissionStatus = Some("granted"), !.requests[1] = "done",
                  !.watcherRef = Some(1), !.subscriptions = {1},
                  !.stats.hp = 0, !.hpRef = 0],
        [coords |-> Some(AtHealingCentre), timestamp |-> Some(StartTime)])

InitLapse ==
    \E isBatched \in BOOLEAN, ticks \in DwellTicksBefore :
        Holds([Dwelling(EnteredUnfiltered(isBatched), ticks)
                 EXCEPT !.pulses = << >>, !.trace = << >>, !.applied = << >>])

\* The player waits while requestPermissions runs a second time.
NextLapse ==
    \/ \E a \in ReviveAdvances : TickWithin(a, MaxLapseTicks)
    \/ Render
    \/ Retry(2)
    \/ \E st \in {"granted", "denied"} : PermissionResultUnfiltered(2, st)
    \/ \E c \in RetryCoords : PositionResultUnfiltered(2, c)
    \/ WatchResult(2)

SpecLapse == InitLapse /\ [][NextLapse]_vars

(***************************************************************************)
(* Teardown                                                                *)
(***************************************************************************)
\* The ticks and the fixes of a session that may be torn down.
MaxTeardownTicks == 2
MaxTeardownFixes == 2

\* A session from the mount on, torn down at any moment.
NextTeardown ==
    \/ Unmount
    \/ \E a \in TickAdvances : TickWithin(a, MaxTeardownTicks)
    \/ \E id \in RequestIds, c \in FixSteps, a \in FixAdvances :
          FixWithin(id, c, a, MaxTeardownFixes)
    \/ Render
    \/ \E id \in RequestIds, st \in {"granted", "denied"} : PermissionResult(id, st)
    \/ \E id \in RequestIds, c \in RetryCoords : PositionResult(id, c)
    \/ \E id \in RequestIds : AcquisitionFailure(id)
    \/ \E id \in RequestIds : WatchResult(id)

SpecTeardown == InitWalk /\ [][NextTeardown]_vars

(***************************************************************************)
(* Claims                                                                  *)
(***************************************************************************)
\* C1: in every reachable state, under any interleaving of fixes, ticks,
\* renders and a denied permission, the stored hp (and the copy hpRef holds)
\* is within [0, MAX_HP].
C1_HpWithinBounds ==
    /\ 0 <= stats.hp /\ stats.hp <= MAX_HP * HpScale
    /\ 0 <= hpRef /\ hpRef <= MAX_HP * HpScale

\* C1 witness: an evaluation applied more damage than the hp that was left, and
\* hp stopped at 0.
C1_Witness ==
    /\ stats.hp = 0
    /\ lastDamage > MAX_HP * HpScale
    /\ pendingStats = << >>

\* C3: an evaluation of a coordinate within the healing zone's radius gives
\* every zone, the moving hazard included, raw damage 0, applies damage 0, calls
\* no damage update, lowers hp by no update, and leaves the haptic stage 0; and
\* the summary of a zone for such a coordinate has raw and mitigated damage 0
\* however near the zone is.
C3_HealingZoneNullifies ==
    /\ \A i \in DOMAIN trace :
          (trace[i].step = "evaluate" /\ InsideHealingZone(Val(trace[i].coords)))
            => /\ Len(zoneSummaries) = Len(DANGER_ZONES) + 1
               /\ \A j \in DOMAIN zoneSummaries : zoneSummaries[j].rawDamage = 0
               /\ lastDamage = 0
               /\ hapticStageRef = 0
               /\ \A k \in DOMAIN trace : trace[k].step # "damage"
               /\ \A k \in DOMAIN applied : applied[k].after >= applied[k].before
    /\ (/\ call.op = "ZoneSummary"
        /\ call.result # << >>
        /\ InsideHealingZone(call.arg[1]))
         => /\ call.result[1].rawDamage = 0
            /\ call.result[1].mitigatedDamage = 0

\* C3 witness: the summary of a zone 58 m from a coordinate on the rim of the
\* healing zone, with raw damage 0.
C3_Witness ==
    /\ call.op = "ZoneSummary"
    /\ call.result # << >>
    /\ call.arg[1] = OnHealingRim
    /\ InsideHealingZone(call.arg[1])
    /\ call.result[1].distance < call.arg[2].safeRadius * 1000
    /\ call.result[1].rawDamage = 0

\* The damage the claim C4 expects of the summaries on display: the sum over
\* the five static zones and the moving hazard of max(rawDamage - guard, 0),
\* rounded to hundredths.
MitigatedOf(j) == Max(zoneSummaries[j].rawDamage - stats.guard * DmgScale, 0)

ExpectedDamage ==
    ToFixed2FromDmg(MitigatedOf(1) + MitigatedOf(2) + MitigatedOf(3) + MitigatedOf(4)
                    + MitigatedOf(5) + MitigatedOf(6))

\* C4: after an evaluation of a coordinate, the last applied damage is D, the
\* sum of the per-zone max(rawDamage - guard, 0) rounded to 2 decimals; if D > 0
\* the evaluation calls exactly one damage update, with D, and otherwise none;
\* and every damage update that runs takes hp to max(hp - D, 0).
C4_AppliedDamage ==
    /\ \A i \in DOMAIN trace :
          trace[i].step = "evaluate"
            => /\ Len(zoneSummaries) = 6
               /\ lastDamage = ExpectedDamage
               /\ Len(SelectSeq(trace, LAMBDA e : e.step = "damage"))
                    = IF ExpectedDamage > 0 THEN 1 ELSE 0
               /\ (ExpectedDamage > 0 /\ batched)
                    => pendingStats[Len(pendingStats)]
                         = [kind |-> "damage", amount |-> ExpectedDamage]
               /\ (ExpectedDamage > 0 /\ ~batched)
                    => /\ applied[Len(applied)].kind = "damage"
                       /\ applied[Len(applied)].amount = ExpectedDamage
                       /\ stats.hp = applied[Len(applied)].after
    /\ \A k \in DOMAIN applied :
          applied[k].kind = "damage"
            => applied[k].after = Max(applied[k].before - applied[k].amount, 0)

\* C4 witness: an evaluation found two zones with damage left after the guard
\* and its damage update has run, leaving some hp.
C4_Witness ==
    /\ \E i \in DOMAIN trace : trace[i].step = "evaluate"
    /\ \E j, k \in DOMAIN zoneSummaries :
          j # k /\ zoneSummaries[j].mitigatedDamage > 0
                /\ zoneSummaries[k].mitigatedDamage > 0
    /\ applied # << >>
    /\ applied[Len(applied)].kind = "damage"
    /\ applied[Len(applied)].amount = lastDamage
    /\ stats.hp = applied[Len(applied)].before - lastDamage
    /\ stats.hp > 0

\* C5: a tick that finds a last known coordinate runs the evaluator exactly once,
\* on that coordinate, after its own steps (hazard, passive regen, healing regen,
\* cadence pulse), so that nothing but the evaluator's pulse and damage update
\* follows, and the damage update is called when the coordinate's summed
\* mitigated damage is above 0; a tick that finds no coordinate runs no
\* evaluator, calls no damage update and lowers hp by no update.
C5_TickReevaluates ==
    event.op = "tick"
      => IF event.coords # None
         THEN /\ Len(SelectSeq(trace, LAMBDA e : e.step = "evaluate")) = 1
              /\ \A i \in DOMAIN trace :
                    trace[i].step = "evaluate"
                      => /\ trace[i].coords = event.coords
                         /\ \A k \in 1..(i - 1) :
                               trace[k].step \in {"hazard", "passive", "heal", "cadence"}
                         /\ \A k \in (i + 1)..Len(trace) :
                               trace[k].step \in {"evaluator", "damage"}
              /\ lastDamage = ExpectedDamage
              /\ lastDamage > 0 => trace[Len(trace)].step = "damage"
         ELSE /\ \A i \in DOMAIN trace :
                    trace[i].step \in {"hazard", "passive", "heal", "cadence"}
              /\ \A k \in DOMAIN applied : applied[k].after >= applied[k].before

\* C5 witness: the second tick after the first position, no fix having come
\* from the watcher, has evaluated the coordinate and its damage update has
\* lowered hp.
C5_Witness ==
    /\ event.op = "tick"
    /\ event.coords # None
    /\ tickCount >= 2
    /\ fixCount = 0
    /\ lastDamage > 0
    /\ applied # << >>
    /\ applied[Len(applied)].kind = "damage"
    /\ applied[Len(applied)].after < applied[Len(applied)].before

\* C6: getHapticsConfig(d) is stage 0 with interval 0 for d < 1 and for a
\* non-finite d, stage 1 with 3000 ms for 1 <= d < 3, stage 2 with 2000 ms for
\* 3 <= d < 6 and stage 3 with 1000 ms for d >= 6; so 1.0, 3.0, 6.0 and 0.999
\* give the stages 1, 2, 3 and 0.
C6_HapticStages ==
    (call.op = "getHapticsConfig" /\ call.result # << >>)
      => LET d == call.arg[1]
             r == call.result[1]
         IN  /\ (d = NonFinite \/ d < 1 * DmgScale)
                   => (r.stage = 0 /\ r.intervalMs = 0)
             /\ (d # NonFinite /\ 1 * DmgScale <= d /\ d < 3 * DmgScale)
                   => (r.stage = 1 /\ r.intervalMs = 3000)
             /\ (d # NonFinite /\ 3 * DmgScale <= d /\ d < 6 * DmgScale)
                   => (r.stage = 2 /\ r.intervalMs = 2000)
             /\ (d # NonFinite /\ 6 * DmgScale <= d)
                   => (r.stage = 3 /\ r.intervalMs = 1000)
             /\ (d = 10000 => r.stage = 1) /\ (d = 30000 => r.stage = 2)
             /\ (d = 60000 => r.stage = 3) /\ (d = 9990 => r.stage = 0)

\* C6 witness: getHapticsConfig(3.0) has returned stage 2.
C6_Witness ==
    /\ call.op = "getHapticsConfig"
    /\ call.arg = << 3 * DmgScale >>
    /\ call.result # << >>
    /\ call.result[1].stage = 2

\* The time the player of SpecRevive has dwelt in the healing zone, in
\* milliseconds: every tick of SpecRevive counts its whole delta.
DwellSoFar == now - StartTime

\* C2 as claimed: starting at hp 0 inside the healing zone, hp is 0 while the
\* accumulated dwell is below 60 seconds, and once a tick has brought the dwell
\* to 60 seconds and its updates are rendered, hp is above 0.
C2_RevivalOnFirstTick ==
    /\ stats.hp > 0 => DwellSoFar >= HEALING_ZONE_ZERO_HP_DELAY_SECONDS * 1000
    /\ (DwellSoFar >= HEALING_ZONE_ZERO_HP_DELAY_SECONDS * 1000 /\ pendingStats = << >>)
         => stats.hp > 0

\* C2 as amended: hp is 0 while the accumulated dwell is below 60 seconds; once
\* a tick has brought the dwell to 60 seconds and its updates are rendered, hp
\* is above 0 unless the healing regen of every tick since had a delta of 1 ms,
\* whose 0.003 hp rounds to 0.00.
C2_Revival ==
    /\ stats.hp > 0 => DwellSoFar >= HEALING_ZONE_ZERO_HP_DELAY_SECONDS * 1000
    /\ (/\ DwellSoFar >= HEALING_ZONE_ZERO_HP_DELAY_SECONDS * 1000
        /\ pendingStats = << >>
        /\ stats.hp = 0)
         => /\ \E i \in DOMAIN applied : applied[i].kind = "heal"
            /\ \A i \in DOMAIN applied :
                   applied[i].kind = "heal"
                     => HEALING_ZONE_REGEN_PER_SECOND * applied[i].amount < 5

\* C2 witness: the healing regen of a tick has just raised hp from 0, the dwell
\* having reached 60 seconds.
C2_Witness ==
    /\ stats.hp > 0
    /\ DwellSoFar >= HEALING_ZONE_ZERO_HP_DELAY_SECONDS * 1000
    /\ \E i \in DOMAIN applied :
          applied[i].kind = "heal" /\ applied[i].before = 0 /\ applied[i].after > 0

\* The pulses of the last handler that `src` fired.
PulsesOf(ps, src) == SelectSeq(ps, LAMBDA e : e.src = src)

\* C7: an evaluation of a coordinate fires one pulse at once if its new stage
\* is not 0 and is higher than the stage before it or the stage before it was
\* 0, and fires none otherwise (the same stage, a lower stage, stage 0); the
\* pulse has the new stage's intensity.
C7_ImmediatePulse ==
    [][(\E i \in DOMAIN trace' : trace'[i].step = "evaluate")
         => LET fired == PulsesOf(pulses', "evaluator")
            IN  /\ Len(fired) <= 1
                /\ Len(fired) = 1
                     <=> /\ hapticStageRef' # 0
                         /\ \/ hapticStageRef' > hapticStageRef
                            \/ hapticStageRef = 0
                /\ Len(fired) = 1
                     => /\ fired[1].style = hapticStyleRef'
                        /\ fired[1].at = now'
                        /\ lastHapticTimeRef' = now']_vars

\* C7 witness: an evaluation has left a stage that is not 0 and has fired no
\* pulse.
C7_Witness ==
    /\ \E i \in DOMAIN trace : trace[i].step = "evaluate"
    /\ hapticStageRef > 0
    /\ PulsesOf(pulses, "evaluator") = << >>

\* The interval and the intensity getHapticsConfig gives the stage.
StageInterval(stage) ==
    IF stage = 3 THEN 1000 ELSE IF stage = 2 THEN 2000 ELSE IF stage = 1 THEN 3000 ELSE 0

StageStyle(stage) ==
    IF stage = 3 THEN "Heavy" ELSE IF stage = 2 THEN "Medium" ELSE "Light"

\* C8: the cadence step of a tick fires one pulse if the stored stage is not 0
\* and the time since the last recorded pulse is at least the stage's interval,
\* and none otherwise, so none at stage 0; the pulse has the stored stage's
\* intensity, and the last-pulse time is the tick time after it (until the
\* tick's evaluation, if it finds stage 0, clears it).
C8_CadencePulse ==
    [][event'.op = "tick"
         => LET fired == PulsesOf(pulses', "cadence")
                due == /\ hapticStageRef # 0
                       /\ now' - lastHapticTimeRef >= StageInterval(hapticStageRef)
            IN  /\ hapticIntervalRef = StageInterval(hapticStageRef)
                /\ Len(fired) = IF due THEN 1 ELSE 0
                /\ Len(fired) = 1
                     => /\ fired[1].style = StageStyle(hapticStageRef)
                        /\ fired[1].at = now'
                        /\ \/ lastHapticTimeRef' = now'
                           \/ hapticStageRef' = 0 /\ lastHapticTimeRef' = 0]_vars

\* C8 witness: the cadence step of a tick has fired a pulse.
C8_Witness ==
    /\ event.op = "tick"
    /\ PulsesOf(pulses, "cadence") # << >>
    /\ lastHapticTimeRef = now

\* C9 as claimed: a passive regen update with delta dt adds min(dt, MAX_HP - hp)
\* to hp if 0 < hp < MAX_HP, and nothing if hp is 0 or MAX_HP (hp in
\* hundredths, dt in milliseconds, compared in thousandths).
C9_PassiveRegenExact ==
    \A k \in DOMAIN applied :
        applied[k].kind = "passive"
          => (applied[k].after - applied[k].before) * 10
               = IF 0 < applied[k].before /\ applied[k].before < MAX_HP * HpScale
                 THEN Min(PASSIVE_REGEN_PER_SECOND * applied[k].amount,
                          (MAX_HP * HpScale - applied[k].before) * 10)
                 ELSE 0

\* C9 as amended: every tick calls one passive regen update, with its effective
\* delta dt; the update takes hp to min(hp + dt, MAX_HP) rounded to 2 decimals
\* if 0 < hp < MAX_HP, and leaves hp as it is if hp is 0 or MAX_HP.
C9_PassiveRegen ==
    /\ event.op = "tick"
         => /\ Len(SelectSeq(trace, LAMBDA e : e.step = "passive")) = 1
            /\ batched => \E i \in DOMAIN pendingStats :
                              pendingStats[i] = [kind |-> "passive", amount |-> event.delta]
            /\ ~batched => applied[1] = [kind |-> "passive", amount |-> event.delta,
                                         before |-> applied[1].before,
                                         after |-> applied[1].after,
                                         timer |-> applied[1].timer]
    /\ \A k \in DOMAIN applied :
          applied[k].kind = "passive"
            => applied[k].after
                 = IF 0 < applied[k].before /\ applied[k].before < MAX_HP * HpScale
                   THEN (Min(applied[k].before * 10
                             + PASSIVE_REGEN_PER_SECOND * applied[k].amount,
                             MAX_HP * HpScale * 10) + 5) \div 10
                   ELSE applied[k].before

\* C9 witness: a passive regen update with a delta of 1.004 s has raised an hp
\* that had room for it, by 1.00.
C9_Witness ==
    \E k \in DOMAIN applied :
        /\ applied[k].kind = "passive"
        /\ applied[k].amount = 1004
        /\ applied[k].before > 0
        /\ applied[k].before < (MAX_HP - 2) * HpScale
        /\ applied[k].after = applied[k].before + 100

\* C10: for a finite distance of at least safeRadius + sourceRadius (0 when the
\* zone has none), the boundary itself included, evaluateZoneDamage returns 0.
C10_SafeBeyondRadius ==
    (call.op = "evaluateZoneDamage" /\ call.result # << >>)
      => LET d == call.arg[1]
             zone == call.arg[2]
             sourceRadius == IF zone.sourceRadius = None THEN 0
                             ELSE zone.sourceRadius[1]
         IN  (d # NonFinite /\ d >= (zone.safeRadius + sourceRadius) * 1000)
               => call.result[1] = 0

\* C10 witness: at exactly safeRadius + sourceRadius, 65 m, from a zone that has
\* a sourceRadius, evaluateZoneDamage has returned 0.
C10_Witness ==
    /\ call.op = "evaluateZoneDamage"
    /\ call.result = << 0 >>
    /\ call.arg[2].sourceRadius # None
    /\ call.arg[1] = (call.arg[2].safeRadius + call.arg[2].sourceRadius[1]) * 1000

\* C11: for a zone with maxDamage set and a distance that is not negative,
\* evaluateZoneDamage returns at most maxDamage, whatever the zone's offset and
\* sourceRadius are.
C11_NeverAboveMaxDamage ==
    (/\ call.op = "evaluateZoneDamage"
     /\ call.result # << >>
     /\ call.arg[2].maxDamage # None
     /\ call.arg[1] # NonFinite
     /\ call.arg[1] >= 0)
      => call.result[1] <= call.arg[2].maxDamage[1] * DmgScale

\* C11 witness: at distance 0 from a static zone, where 6 + 30 / 0.1 is 306,
\* evaluateZoneDamage has returned the zone's maxDamage, 18.
C11_Witness ==
    /\ call.op = "evaluateZoneDamage"
    /\ call.arg = << 0, DANGER_ZONES[1] >>
    /\ call.result = << 18 * DmgScale >>
    /\ DANGER_ZONES[1].baseDamage * DmgScale
         + RDiv(DANGER_ZONES[1].scale * DmgScale * 1000, DANGER_ZONES[1].offset)
       > 18 * DmgScale

\* The distance less the zone's sourceRadius, and the sum of it and the zone's
\* offset, for the distance and the zone given to the last call of
\* evaluateZoneDamage (millimetres).
CallEffectiveDistance ==
    Max(0, call.arg[1] - (IF call.arg[2].sourceRadius = None THEN 0
                          ELSE call.arg[2].sourceRadius[1] * 1000))

CallDenominatorSum == CallEffectiveDistance + call.arg[2].offset

\* The damage of the last call for the denominator den (millimetres): baseDamage
\* + scale / den, clamped to the zone's maxDamage if it has one.
CallDamageFor(den) ==
    LET zone == call.arg[2]
        uncapped == zone.baseDamage * DmgScale + (zone.scale * DmgScale * 1000 + den \div 2) \div den
    IN  IF zone.maxDamage = None THEN uncapped
        ELSE IF uncapped <= zone.maxDamage[1] * DmgScale THEN uncapped
        ELSE zone.maxDamage[1] * DmgScale

\* The last call was evaluateZoneDamage with a distance in range, and has
\* returned.
CallInRange ==
    /\ call.op = "evaluateZoneDamage"
    /\ call.result # << >>
    /\ call.arg[1] # NonFinite
    /\ CallEffectiveDistance < call.arg[2].safeRadius * 1000

\* C12 as claimed: for a distance in range, evaluateZoneDamage divides scale by
\* max(effectiveDistance + offset, 0.1), so by 0.1 at least.
C12_DenominatorFloor ==
    CallInRange
      => call.result[1] = CallDamageFor(IF CallDenominatorSum >= 100
                                        THEN CallDenominatorSum ELSE 100)

\* C12 as amended: for a distance in range, evaluateZoneDamage divides scale by
\* effectiveDistance + offset if that sum is above 0, whether it is below 0.1 or
\* not, and by 0.1 if the sum is 0 or negative; so the denominator is above 0
\* always, and at least 0.1 unless the sum lies between 0 and 0.1.
C12_Denominator ==
    CallInRange
      => /\ CallDenominatorSum >= 100
              => call.result[1] = CallDamageFor(CallDenominatorSum)
         /\ (0 < CallDenominatorSum /\ CallDenominatorSum < 100)
              => /\ call.result[1] = CallDamageFor(CallDenominatorSum)
                 /\ call.result[1] >= CallDamageFor(100)
         /\ CallDenominatorSum <= 0
              => call.result[1] = CallDamageFor(100)
         /\ call.result[1] >= IF call.arg[2].maxDamage = None
                              THEN call.arg[2].baseDamage * DmgScale
                              ELSE Min(call.arg[2].baseDamage,
                                       call.arg[2].maxDamage[1]) * DmgScale

\* C12 witness: at distance 0 from a zone with offset 0.05 and no maxDamage,
\* evaluateZoneDamage has returned 6 + 30 / 0.05 = 606, twice what the
\* denominator 0.1 gives.
C12_Witness ==
    /\ CallInRange
    /\ call.arg = << 0, ShapedZone(None, 50, None) >>
    /\ call.result = << 606 * DmgScale >>
    /\ CallDamageFor(100) = 306 * DmgScale

\* The last call was advanceWithinCircle(offset, direction, distance, radius),
\* and has returned; the squared length of a vector.
CallAdvanced == call.op = "advanceWithinCircle" /\ call.result # << >>

SquaredLength(v) == v.x * v.x + v.y * v.y

\* The returned position is within the radius, to the centimetre the
\* fixed-point coordinates are rounded to.
CallWithinRadius ==
    SquaredLength(call.result[1].position) <= (call.arg[4] + 1) * (call.arg[4] + 1)

\* C13 as claimed: for any offset, direction, travel distance and radius > 0,
\* the position advanceWithinCircle returns is within the radius.
C13_AlwaysWithinRadius == CallAdvanced => CallWithinRadius

\* C13 as amended: the position advanceWithinCircle returns is within the
\* radius if the direction is no longer than a unit vector and either the travel
\* distance is above 0 or the offset given is within the radius; and the moving
\* hazard, which starts within its radius and travels along a unit vector, is
\* within it after every tick.
C13_WithinRadius ==
    /\ (/\ CallAdvanced
        /\ SquaredLength(call.arg[2]) <= DirScale * DirScale
        /\ \/ call.arg[3] > 0
           \/ SquaredLength(call.arg[1]) <= call.arg[4] * call.arg[4])
         => CallWithinRadius
    /\ SquaredLength(movingHazardState.offset)
         <= (MOVING_HAZARD.radiusMeters + 1) * (MOVING_HAZARD.radiusMeters + 1)
    /\ SquaredLength(movingHazardRef.offset)
         <= (MOVING_HAZARD.radiusMeters + 1) * (MOVING_HAZARD.radiusMeters + 1)

\* C13 witness: from an offset beyond the radius, along a unit vector whose
\* line misses the circle, advanceWithinCircle has returned a position on the
\* boundary.
C13_Witness ==
    /\ CallAdvanced
    /\ call.arg = << [x |-> 12000, y |-> 0], [x |-> 0, y |-> 10000], 400, 10000 >>
    /\ call.result[1].position = [x |-> 10000, y |-> 0]
    /\ call.result[1].guard = 0

\* The straight-line target of the last call of advanceWithinCircle.
CallTarget ==
    [x |-> call.arg[1].x + (call.arg[2].x * call.arg[3] + DirScale \div 2) \div DirScale,
     y |-> call.arg[1].y + (call.arg[2].y * call.arg[3] + DirScale \div 2) \div DirScale]

\* C14 as claimed: every call of advanceWithinCircle returns after at most 4
\* reflections, whatever the offset, the direction, the travel distance and the
\* radius; and when the straight-line target lies within the radius, it returns
\* the target and the direction given, after no reflection.
C14_TargetAccepted ==
    CallAdvanced
      => /\ call.result[1].guard \in 0..4
         /\ SquaredLength(CallTarget) <= call.arg[4] * call.arg[4]
              => /\ call.result[1].position = CallTarget
                 /\ call.result[1].direction = call.arg[2]
                 /\ call.result[1].guard = 0

\* C14 as amended: every call returns after at most 4 reflections; when the
\* travel distance is not negative and the straight-line target lies within the
\* radius, it returns the target and the direction given, after no reflection;
\* and for a travel distance that is negative (or 0) it returns the offset and
\* the direction given, after no reflection, wherever the target lies.
C14_BoundedReflections ==
    CallAdvanced
      => /\ call.result[1].guard \in 0..4
         /\ (/\ call.arg[3] >= 0
             /\ SquaredLength(CallTarget) <= call.arg[4] * call.arg[4])
              => /\ call.result[1].position = CallTarget
                 /\ call.result[1].direction = call.arg[2]
                 /\ call.result[1].guard = 0
         /\ call.arg[3] <= 0
              => /\ call.result[1].position = call.arg[1]
                 /\ call.result[1].direction = call.arg[2]
                 /\ call.result[1].guard = 0

\* C14 witness: a travel of 8 m from the centre of a circle of radius 0.5 m has
\* stopped at the fourth reflection, on the boundary.
C14_Witness ==
    /\ CallAdvanced
    /\ call.arg = << [x |-> 0, y |-> 0], [x |-> 0, y |-> 10000], 800, 50 >>
    /\ call.result[1].guard = 4
    /\ SquaredLength(call.result[1].position) = call.arg[4] * call.arg[4]

\* The decisions of the filter's gate the last handler traced.
GateDecisions(tr) == SelectSeq(tr, LAMBDA e : e.step \in {"accept", "reject"})

\* The gate's decision for the measurement of the step to the next state, when
\* the movement is measured from the coordinate last, with dt the time since
\* the last fix clamped to [0.05 s, 3 s]: rejected when movement / dt is above
\* 5.5 m/s, rejected when the movement is below 0.75 m, accepted otherwise and
\* when there is no coordinate to measure from (movement in millimetres, dt in
\* milliseconds).
GateExpected(last) ==
    LET elapsed == IF positionFilterRef.lastTimestamp = None THEN 1000
                   ELSE now' - positionFilterRef.lastTimestamp[1]
        dt == IF elapsed <= 0 THEN 1000
              ELSE IF elapsed < 50 THEN 50
              ELSE IF elapsed > 3000 THEN 3000 ELSE elapsed
        movement == calculateDistanceMeters(last[1], event'.coords[1])
    IN  IF last = None THEN "accept"
        ELSE IF movement * 1000 > 5500 * dt THEN "reject"
        ELSE IF movement < 750 THEN "reject"
        ELSE "accept"

\* A position or a fix is handled, and the gate decides as for the movement
\* from the coordinate last.
GateDecidesFrom(last) ==
    event'.op \in {"fix", "position"}
        => /\ Len(GateDecisions(trace')) = 1
           /\ GateDecisions(trace')[1].step = GateExpected(last)
           /\ GateDecisions(trace')[1].coords = event'.coords
           /\ positionFilterRef = FilterInit => GateDecisions(trace')[1].step = "accept"

\* C15 as stated: the first fix after a reset is accepted; a later fix is
\* rejected when movement / dt > 5.5 m/s, rejected when movement < 0.75 m and
\* accepted otherwise, the movement being measured from the stable coordinate
\* of the last fix the gate accepted.
C15_FromLastAccepted == [][GateDecidesFrom(positionFilterRef.lastAcceptedCoords)]_vars

\* C15, amended: the same gate, the movement being measured from the stable
\* coordinate the filter returned last, whether for an accepted fix or for a
\* rejected, dead-reckoned one.
C15_AcceptanceGate == [][GateDecidesFrom(positionFilterRef.lastStableCoords)]_vars

\* C15 witness: a fix 5 s after the one before it and less than 20 m but more
\* than 16.5 m from the stable coordinate has been rejected: its speed counts
\* over the 3 s the delta is clamped to.
C15_Witness ==
    /\ event.op = "fix"
    /\ fixCount >= 2
    /\ GateDecisions(trace) # << >>
    /\ GateDecisions(trace)[1].step = "reject"
    /\ location # None
    /\ stabilizedCoords # None
    /\ calculateDistanceMeters(stabilizedCoords[1], location[1].coords[1]) > 16500
    /\ calculateDistanceMeters(stabilizedCoords[1], location[1].coords[1]) < 20000
    /\ positionFilterRef.lastTimestamp = << now >>

\* An axis tracker after a step of dt milliseconds without a measurement:
\* position + velocity * dt (centimetres), the velocity kept.
DeadReckoned(axis, dt) ==
    [axis EXCEPT !.position = axis.position + RDiv(axis.velocity * dt, 10000)]

\* The time delta of the step to the next state, clamped to [50 ms, 3000 ms].
StepDelta ==
    LET elapsed == now' - positionFilterRef.lastTimestamp[1]
    IN  IF elapsed <= 0 THEN 1000
        ELSE IF elapsed < 50 THEN 50
        ELSE IF elapsed > 3000 THEN 3000 ELSE elapsed

\* C16: when the gate rejects a fix, each axis tracker dead-reckons for the
\* step (position + velocity * dt, velocity unchanged), and the tracker state
\* and the coordinate returned are those the state before and dt give (the EMA
\* of the dead-reckoned position about the unchanged anchor), whatever the
\* rejected coordinates were.
C16_DeadReckoning ==
    [][(event'.op = "fix" /\ GateDecisions(trace') # << >>
                          /\ GateDecisions(trace')[1].step = "reject")
         => LET f == positionFilterRef
                x == DeadReckoned(f.axisX, StepDelta)
                y == DeadReckoned(f.axisY, StepDelta)
                e == f.emaPosition[1]
                ema == [x |-> e.x + RDiv(35 * (x.position - e.x), 100),
                        y |-> e.y + RDiv(35 * (y.position - e.y), 100)]
                out == offsetsToCoords(f.referenceCoords[1], ema.x, ema.y)
            IN  /\ positionFilterRef'.axisX = x
                /\ positionFilterRef'.axisY = y
                /\ positionFilterRef'.referenceCoords = f.referenceCoords
                /\ positionFilterRef'.emaPosition = << ema >>
                /\ positionFilterRef'.lastStableCoords = << out >>
                /\ stabilizedCoords' = << out >>]_vars

\* C16 witness: a tracker that was moving has dead-reckoned past a rejected
\* fix more than 10 m from the coordinate returned.
C16_Witness ==
    /\ event.op = "fix"
    /\ GateDecisions(trace) # << >>
    /\ GateDecisions(trace)[1].step = "reject"
    /\ positionFilterRef.axisY.velocity # 0
    /\ positionFilterRef.lastStableCoords # positionFilterRef.lastAcceptedCoords
    /\ calculateDistanceMeters(stabilizedCoords[1], event.coords[1]) > 10000

\* C17: a permission result, granted or not, leaves the position filter as a
\* freshly created one (trackers, anchor, EMA, last stable coordinate and last
\* timestamp cleared) and no stabilized coordinate; and a fix processed by a
\* filter in that state is accepted, is returned as it came, and leaves the
\* filter anchored at it with both trackers at rest at the anchor, whatever
\* fixes came before the interruption.
C17_FilterReset ==
    [][/\ event'.op = "permission"
           => positionFilterRef' = FilterInit /\ stabilizedCoords' = None
       /\ (event'.op \in {"fix", "position"} /\ positionFilterRef = FilterInit)
           => /\ GateDecisions(trace') # << >>
              /\ GateDecisions(trace')[1].step = "accept"
              /\ stabilizedCoords' = event'.coords
              /\ positionFilterRef' =
                     [axisX |-> [initialized |-> TRUE, position |-> 0, velocity |-> 0],
                      axisY |-> [initialized |-> TRUE, position |-> 0, velocity |-> 0],
                      referenceCoords |-> event'.coords,
                      emaPosition |-> << [x |-> 0, y |-> 0] >>,
                      lastTimestamp |-> << now' >>,
                      lastStableCoords |-> event'.coords,
                      lastAcceptedCoords |-> event'.coords]]_vars

\* C17 witness: after fixes of a first watcher, the position of a second, granted
\* request has been returned as it came by a filter anchored at it.
C17_Witness ==
    /\ event.op = "position"
    /\ event.id = 2
    /\ fixCount >= 1
    /\ requests[1] = "done"
    /\ stabilizedCoords = event.coords
    /\ positionFilterRef.referenceCoords = event.coords
    /\ positionFilterRef.lastTimestamp = << now >>

C19_TeardownStopsAll ==
    [][~mounted' => /\ subscriptions' = {}
                    /\ ~intervalActive'
                    /\ event'.op \notin {"fix", "tick"}]_vars

\* C20: a permission result that is not granted removes the stored fix
\* subscription and clears the 1-second timer, and a tick that finds the status
\* not granted does not advance the moving hazard, leaves hp as it is and fires
\* no haptic pulse.
C20_RefusalStopsTimer ==
    [][/\ (event'.op = "permission" /\ permissionStatus' # << "granted" >>)
           => /\ watcherRef # None => watcherRef[1] \notin subscriptions'
              /\ watcherRef' = None
              /\ ~intervalActive'
       /\ (event'.op = "tick" /\ permissionStatus \notin {None, << "granted" >>})
           => /\ \A i \in DOMAIN trace' : trace'[i].step # "hazard"
              /\ movingHazardRef' = movingHazardRef
              /\ hpRef' = hpRef
              /\ pulses' = << >>]_vars

\* C21: whenever the view is up to date and a permission request was refused
\* or an acquisition failed (an error message is set), the view shows the
\* message and offers the retry button.
C21_RetryOffered ==
    (~dirty /\ (errorMsg # None \/ permissionStatus \notin {None, << "granted" >>}))
        => /\ renderContent(World).retry
           /\ errorMsg # None => renderContent(World).message = errorMsg

\* The coordinates reported are missing or not finite.
Unusable(coords) ==
    coords = None \/ NonFinite \in {coords[1].latitude, coords[1].longitude}

\* The axis tracker is as before the step or has dead-reckoned through it.
HeldOrDeadReckoned(before, after) ==
    \/ after = before
    \/ /\ NonFinite \notin {before.position, before.velocity}
       /\ positionFilterRef.lastTimestamp # None
       /\ after = DeadReckoned(before, StepDelta)

\* C22: a fix without coords or with a non-finite latitude or longitude is not
\* accepted by the gate, leaves the anchor as it is and each tracker as it was
\* or dead-reckoned; and every fix with finite coordinates is filtered to a
\* finite coordinate.
C22_GlitchIgnored ==
    [][event'.op \in {"fix", "position"}
         => IF Unusable(event'.coords)
            THEN /\ \A i \in DOMAIN trace' : trace'[i].step # "accept"
                 /\ positionFilterRef'.referenceCoords = positionFilterRef.referenceCoords
                 /\ HeldOrDeadReckoned(positionFilterRef.axisX, positionFilterRef'.axisX)
                 /\ HeldOrDeadReckoned(positionFilterRef.axisY, positionFilterRef'.axisY)
            ELSE /\ stabilizedCoords' # None
                 /\ ~Unusable(stabilizedCoords')]_vars

InexactDifferences ==
    {
      <<9307, 593>>, <<9313, 587>>, <<9313, 609>>, <<9334, 332>>,
      <<9348, 593>>, <<9348, 602>>, <<9362, 638>>, <<9363, 429>>,
      <<9363, 587>>, <<9363, 637>>, <<9396, 379>>, <<9398, 602>>,
      <<9398, 638>>, <<9413, 587>>, <<9434, 332>>, <<9435, 565>>,
      <<9448, 602>>, <<9462, 638>>, <<9463, 429>>, <<9463, 587>>,
      <<9498, 602>>, <<9512, 627>>, <<9513, 587>>, <<9535, 565>>,
      <<9548, 602>>, <<9548, 638>>, <<9562, 638>>, <<9563, 587>>,
      <<9571, 429>>, <<9598, 602>>, <<9598, 638>>, <<9613, 587>>,
      <<9635, 565>>, <<9667, 332>>, <<9668, 332>>, <<9671, 429>>,
      <<9768, 332>>, <<9771, 429>>, <<10000, 829>>, <<10000, 1929>>,
      <<10000, 3529>>
    }

StoresInexactHp(entry) ==
    /\ entry.kind = "damage"
    /\ <<entry.before, entry.amount>> \in InexactDifferences

(***************************************************************************)
(* C24: every stored hp value is an integer multiple of 0.01; in           *)
(* particular no damage evaluation stores a binary64 difference that is    *)
(* not a two-decimal number.                                               *)
(***************************************************************************)
C24_HpTwoDecimals ==
    \A i \in DOMAIN applied : ~StoresInexactHp(applied[i])


(***************************************************************************)
(* Evaluating the same coordinate again.  A handler that ends with the     *)
(* proximity evaluator leaves "evaluate" as the last step of its trace but *)
(* for the steps the evaluator itself takes afterwards (the haptic pulse   *)
(* and the damage update); the state is then the state after one           *)
(* evaluation, and EvaluatedAgain is the state after a second evaluation   *)
(* of the same coordinate with nothing in between.  SettledHp is the hp    *)
(* once the queued updaters have run.                                      *)
(***************************************************************************)
LastEvaluation ==
    {i \in DOMAIN trace :
        /\ trace[i].step = "evaluate"
        /\ \A j \in DOMAIN trace : j > i => trace[j].step \in {"evaluator", "damage"}}

EvaluatedLast == LastEvaluation # {}

EvaluatedAgain ==
    applyProximityEffects(World, trace[CHOOSE i \in LastEvaluation : TRUE].coords)

SettledHp(w) == RenderApp(w).stats.hp

SameButHp(w, v) ==
    /\ v.zoneSummaries = w.zoneSummaries
    /\ v.isInHealingZone = w.isInHealingZone
    /\ v.isInHealingZoneRef = w.isInHealingZoneRef
    /\ v.healingZoneTimerRef = w.healingZoneTimerRef
    /\ v.lastDamage = w.lastDamage
    /\ v.hapticStageRef = w.hapticStageRef

\* The claim as stated: the second evaluation changes nothing, hp included.
C25_Idempotent ==
    EvaluatedLast =>
        /\ SameButHp(World, EvaluatedAgain)
        /\ SettledHp(EvaluatedAgain) = SettledHp(World)

(***************************************************************************)
(* C25: evaluating the same coordinate twice in a row, with no tick and no *)
(* other fix in between, leaves the zone summaries, the healing-zone flag, *)
(* the dwell timer, the last-applied damage and the haptic stage as one    *)
(* evaluation leaves them; hp is lowered by the applied damage once more,  *)
(* floored at 0.                                                           *)
(***************************************************************************)
C25_IdempotentButHp ==
    EvaluatedLast =>
        /\ SameButHp(World, EvaluatedAgain)
        /\ SettledHp(EvaluatedAgain) = Max(SettledHp(World) - lastDamage, 0)

C25_Witness ==
    /\ EvaluatedLast
    /\ lastDamage > 0
    /\ SettledHp(World) > 0
    /\ SettledHp(EvaluatedAgain) < SettledHp(World)


\* The moving hazard as a zone with all its configured shape parameters,
\* sourceRadius included.
ConfiguredHazardZone(dynamicState) ==
    [DynamicZone(dynamicState) EXCEPT !.sourceRadius = MOVING_HAZARD.sourceRadius]

(***************************************************************************)
(* C26: the raw damage of the moving hazard's summary entry is             *)
(* evaluateZoneDamage of the entry's distance with the hazard's configured *)
(* sourceRadius (5 m), safeRadius, baseDamage, scale, offset and           *)
(* maxDamage, outside the healing zone.                                    *)
(***************************************************************************)
C26_HazardUsesSourceRadius ==
    \A i \in DOMAIN zoneSummaries :
        zoneSummaries[i].isDynamic /\ ~isInHealingZone =>
            zoneSummaries[i].rawDamage =
                evaluateZoneDamage(zoneSummaries[i].distance,
                                   ConfiguredHazardZone(movingHazardRef))


\* The dwell timer is within its range, and it runs only at hp 0 inside the
\* healing zone.
DwellTimerInRange ==
    /\ 0 <= healingZoneTimerRef
    /\ healingZoneTimerRef <= HEALING_ZONE_ZERO_HP_DELAY_SECONDS * 1000
    /\ healingZoneTimerRef > 0 =>
           stats.hp <= 0 /\ hpRef <= 0 /\ isInHealingZoneRef

\* The handlers that leave the dwell timer at 0: one that evaluated a
\* coordinate outside the healing zone, a tick that found the flag false, and
\* one in which a regen updater raised hp above 0.
DwellTimerResets ==
    /\ (\E i \in DOMAIN trace' :
            /\ trace'[i].step = "evaluate"
            /\ ~InsideHealingZone(Val(trace'[i].coords)))
       => healingZoneTimerRef' = 0
    /\ (event'.op = "tick" /\ ~isInHealingZoneRef) => healingZoneTimerRef' = 0
    /\ (\E i \in DOMAIN applied' :
            /\ applied'[i].kind \in {"passive", "heal"}
            /\ applied'[i].before <= 0
            /\ applied'[i].after > 0)
       => healingZoneTimerRef' = 0

(***************************************************************************)
(* C27: between handlers the dwell timer is within [0, 60] seconds and is  *)
(* above 0 only while hp <= 0 and the healing-zone flag is true; an        *)
(* evaluation of a coordinate outside the healing zone, a tick with the    *)
(* flag false, and a regen step that raises hp above 0 each leave the      *)
(* timer at 0.                                                             *)
(***************************************************************************)
C27_DwellTimer == []DwellTimerInRange /\ [][DwellTimerResets]_vars

\* The player stepped out of the zone at hp 0 after a tick had counted dwell
\* time, and the timer is 0.
C27_Witness ==
    /\ event.op = "fix"
    /\ tickCount >= 1
    /\ stats.hp <= 0
    /\ hpRef <= 0
    /\ ~isInHealingZoneRef
    /\ healingZoneTimerRef = 0


\* The largest effective delta of a tick, in milliseconds.
MaxTickDeltaMs == 2000

\* The hazard updaters that run in the step: the one of the tick itself unless
\* it is queued, the queued ones in a render.
HazardUpdatersRun ==
    IF event'.op = "render" THEN Len(pendingHazard)
    ELSE IF event'.op = "tick" /\ Len(pendingHazard') = Len(pendingHazard) THEN 1
    ELSE 0

\* The square of the distance, in centimetres, the hazard's offset moves by in
\* the step.
HazardDisplacementSquared ==
    (movingHazardState'.offset.x - movingHazardState.offset.x)
        * (movingHazardState'.offset.x - movingHazardState.offset.x)
    + (movingHazardState'.offset.y - movingHazardState.offset.y)
        * (movingHazardState'.offset.y - movingHazardState.offset.y)

\* The longest path of the hazard in one tick, in centimetres: 8 m, and the
\* centimetre to which the model rounds an offset.
OffsetRoundingCm == 1
MaxTickTravel ==
    RDiv(MOVING_HAZARD.speedMetersPerSecond * MaxTickDeltaMs, 1000) + OffsetRoundingCm

\* The delta of the tick, and the delta each regen updater was given, are in
\* (0, 2] seconds; a regen updater adds at most 2 seconds' worth of hp.
TickDeltaInRange ==
    /\ event.op = "tick" => 0 < event.delta /\ event.delta <= MaxTickDeltaMs
    /\ \A i \in DOMAIN applied :
          /\ applied[i].kind \in {"passive", "heal"} =>
                0 < applied[i].amount /\ applied[i].amount <= MaxTickDeltaMs
          /\ applied[i].kind = "passive" =>
                applied[i].after - applied[i].before
                    <= RDiv(PASSIVE_REGEN_PER_SECOND * MaxTickDeltaMs * HpScale, 1000)
          /\ applied[i].kind = "heal" =>
                applied[i].after - applied[i].before
                    <= RDiv(HEALING_ZONE_REGEN_PER_SECOND * MaxTickDeltaMs * HpScale, 1000)

\* A tick advances the dwell timer by at most 2 seconds and each hazard
\* updater moves the hazard by at most 8 m.
TickEffectsBounded ==
    /\ event'.op = "tick" =>
           healingZoneTimerRef' - healingZoneTimerRef <= MaxTickDeltaMs
    /\ HazardDisplacementSquared
           <= (HazardUpdatersRun * MaxTickTravel) * (HazardUpdatersRun * MaxTickTravel)

(***************************************************************************)
(* C28: the delta a tick uses is in (0, 2] seconds, whatever the           *)
(* wall-clock delta (non-finite or non-positive: 1; larger than 2: 2); so  *)
(* one tick moves the hazard by at most 8 m, adds at most 2 hp of passive  *)
(* regen and 6 hp of healing-zone regen, and advances the dwell timer by   *)
(* at most 2 s.                                                            *)
(***************************************************************************)
C28_TickDeltaClamped == []TickDeltaInRange /\ [][TickEffectsBounded]_vars

\* A tick after a stall of a minute, in which the healing zone's regen added
\* its 6 hp.
C28_Witness ==
    /\ event.op = "tick"
    /\ now - StartTime >= 60000
    /\ event.delta = MaxTickDeltaMs
    /\ \E i \in DOMAIN applied :
          /\ applied[i].kind = "heal"
          /\ applied[i].after - applied[i].before
                 = RDiv(HEALING_ZONE_REGEN_PER_SECOND * MaxTickDeltaMs * HpScale, 1000)


\* The hazard state the advance steps of the ticks so far produce: the state
\* itself, once the updaters still queued have run.
AdvancedHazard == RunHazardUpdaters(World, pendingHazard).movingHazardState

\* The entries of the summaries that belong to the moving hazard.
DynamicEntries == {i \in DOMAIN zoneSummaries : zoneSummaries[i].isDynamic}

(***************************************************************************)
(* C29: the re-evaluation that ends a tick measures the distance to the    *)
(* coordinate the same tick's advance step produced, and the coordinate    *)
(* the evaluator reads is offsetsToCoords(center, offset) of the hazard's  *)
(* offset.                                                                 *)
(***************************************************************************)
C29_ReevaluationSeesAdvance ==
    (event.op = "tick" /\ event.coords # None) =>
        /\ DynamicEntries # {}
        /\ \A i \in DynamicEntries :
              zoneSummaries[i].distance =
                  calculateDistanceMeters(Val(event.coords), AdvancedHazard.coords)
        /\ movingHazardRef.coords =
               offsetsToCoords(MOVING_HAZARD.center, movingHazardRef.offset.x,
                               movingHazardRef.offset.y)


\* The tolerance on the length of the heading, in 1/DirScale.
DirTolerance == 2

IsUnitVector(v) ==
    /\ (DirScale - DirTolerance) * (DirScale - DirTolerance) <= SquaredLength(v)
    /\ SquaredLength(v) <= (DirScale + DirTolerance) * (DirScale + DirTolerance)

WithinPatrolRadius(offset) ==
    SquaredLength(offset)
        <= (MOVING_HAZARD.radiusMeters + OffsetRoundingCm)
           * (MOVING_HAZARD.radiusMeters + OffsetRoundingCm)

(***************************************************************************)
(* C30: from the clamped initial offset and the unit initial heading,      *)
(* after any number of ticks the hazard's offset is within its radius of   *)
(* 300 m and its heading is a unit vector.                                 *)
(***************************************************************************)
C30_SessionKinematics ==
    /\ WithinPatrolRadius(movingHazardState.offset)
    /\ WithinPatrolRadius(movingHazardRef.offset)
    /\ IsUnitVector(movingDirectionRef)

\* The hazard has been reflected at its boundary and has moved on.
C30_Witness ==
    /\ movingDirectionRef # MOVING_HAZARD.initialHeading
    /\ movingHazardState.offset.x < MOVING_HAZARD.radiusMeters \div 2
    /\ C30_SessionKinematics


\* The last known coordinate is inside the healing zone.
LastKnownInsideHealingZone ==
    /\ ~IsNone(locationRef)
    /\ ~IsNone(Val(locationRef).coords)
    /\ InsideHealingZone(Val(Val(locationRef).coords))

\* The step raises hp from 0.
HpRevived == stats.hp <= 0 /\ stats.hp' > 0

\* A healing-zone regen updater that ran in the step found hp at 0 and the
\* dwell timer at its 60 seconds, and raised hp.
RevivedByDwell ==
    \E i \in DOMAIN applied' :
        /\ applied'[i].kind = "heal"
        /\ applied'[i].before <= 0
        /\ applied'[i].after > 0
        /\ applied'[i].timer = HEALING_ZONE_ZERO_HP_DELAY_SECONDS * 1000

PositiveResidueDifferences == {<<10000, 829>>, <<10000, 1929>>, <<10000, 3529>>}

\* Every updater moves hp in its own direction: damage down, regen up.
UpdatersKeepDirection ==
    \A i \in DOMAIN applied :
        /\ applied[i].kind = "damage" => applied[i].after <= applied[i].before
        /\ applied[i].kind \in {"passive", "heal"} =>
               applied[i].after >= applied[i].before

\* The stored hp is the unrounded result of a damage updater, above its
\* two-decimal value, and the first updater of the step is a passive regen of
\* less than 0.005 hp: toFixed(2) brings hp back to the two-decimal value, below
\* the hp stored before.
RegenRoundsResidueAway ==
    /\ applied # << >>
    /\ applied[Len(applied)].kind = "damage"
    /\ <<applied[Len(applied)].before, applied[Len(applied)].amount>>
           \in PositiveResidueDifferences
    /\ stats.hp = applied[Len(applied)].after
    /\ applied' # << >>
    /\ applied'[1].kind = "passive"
    /\ applied'[1].before = stats.hp
    /\ applied'[1].after = stats.hp
    /\ 0 < PASSIVE_REGEN_PER_SECOND * applied'[1].amount
    /\ PASSIVE_REGEN_PER_SECOND * applied'[1].amount < 5

\* What each kind of handler may do to the stats.
HandlersKeepDirection ==
    /\ event'.op \in {"fix", "position"} =>
           /\ stats.hp' <= stats.hp
           /\ \A i \in DOMAIN applied' : applied'[i].kind = "damage"
    /\ (event'.op = "permission" /\ permissionStatus' # Some("granted")) =>
           /\ stats.hp' = stats.hp
           /\ pendingStats' = pendingStats
           /\ applied' = << >>
    /\ stats.guard' = stats.guard
    /\ stats.resonance' = stats.resonance

(***************************************************************************)
(* C32: a fix handler and the evaluator never increase hp, a tracking loss *)
(* leaves hp unchanged, the regen steps of a tick never decrease hp, and   *)
(* no operation changes guard or resonance.                                *)
(***************************************************************************)
C32_HpDirections ==
    /\ []UpdatersKeepDirection
    /\ [][HandlersKeepDirection /\ ~RegenRoundsResidueAway]_vars


LastPulseRecorded ==
    hapticStageRef # 0 /\ pulses # << >>
        => lastHapticTimeRef = pulses[Len(pulses)].at

PacedWithinStage ==
    hapticStageRef # 0 /\ hapticStageRef' = hapticStageRef
        => /\ Len(pulses') <= 1
           /\ \A i \in 1..Len(pulses') :
                  pulses'[i].at - lastHapticTimeRef >= StageInterval(hapticStageRef)
           /\ pulses' = << >> => lastHapticTimeRef' = lastHapticTimeRef

C34_PulsePacing == []LastPulseRecorded /\ [][PacedWithinStage]_vars

\* C34 witness: the cadence step of a tick has fired the stored stage's next
\* pulse, its only pulse, and the evaluation after it has left a stage that is
\* not 0.
C34_Witness ==
    /\ event.op = "tick"
    /\ hapticStageRef # 0
    /\ Len(pulses) = 1
    /\ pulses[1].src = "cadence"
    /\ trace # << >>
    /\ lastHapticTimeRef = now


(***************************************************************************)
(* C35: the filter cannot lock a stationary user out: once the stream      *)
(* keeps reporting one coordinate, the filter is never in a state in which *)
(* its output is 0.75 m or more from that coordinate and a further fix     *)
(* there, at whatever rate, is rejected and leaves the filter as it was,   *)
(* so that every later fix there is rejected as well.                      *)
(***************************************************************************)
\* A fix at coords, rate milliseconds after the last one, is rejected and
\* changes nothing of the filter f but the time of the last fix.
RejectedWithoutEffect(f, coords, rate) ==
    LET at == Val(f.lastTimestamp) + rate
        r == applyMeasurement(f, [coords |-> Some(coords), timestamp |-> Some(at)], at)
    IN  /\ ~r.accepted
        /\ r.filter = [f EXCEPT !.lastTimestamp = Some(at)]

LockedOutOf(f, coords) ==
    /\ ~IsNone(f.lastStableCoords)
    /\ ~IsNone(f.lastTimestamp)
    /\ calculateDistanceMeters(Val(f.lastStableCoords), coords) >= MinMovementMm
    /\ \A rate \in SteadyRates : RejectedWithoutEffect(f, coords, rate)

C35_NoLockout ==
    ~ /\ StreamSettled
      /\ event.op = "fix"
      /\ event.coords = Some(SettledAt)
      /\ LockedOutOf(positionFilterRef, SettledAt)


(***************************************************************************)
(* C36: over a tick with a delta in (0, 2] seconds, for a player with hp   *)
(* left whose last known coordinate is the same before and after, outside  *)
(* the healing zone, and whose evaluation applies a damage above 1 (the    *)
(* passive regen per second), hp decreases (on a root that renders within  *)
(* the handler, where the tick's updates are in stats when it returns).    *)
(***************************************************************************)
TickUnderDamage ==
    /\ event'.op = "tick"
    /\ ~batched
    /\ event'.delta \in 1..MaxTickDeltaMs
    /\ ~IsNone(locationRef)
    /\ locationRef' = locationRef
    /\ ~isInHealingZoneRef
    /\ ~isInHealingZoneRef'
    /\ stats.hp > 0
    /\ \E i \in DOMAIN applied' :
          /\ applied'[i].kind = "damage"
          /\ applied'[i].amount > HpScale

C36_DamageOutpacesRegen == [][TickUnderDamage => stats.hp' < stats.hp]_vars

=============================================================================
